---- MODULE Spec2Model ----
(***************************************************************************)
(* Model of package say (gopkg.in/say.v0): the delivery queue between the  *)
(* logging calls and the listener (SetListener, Flush, Logger.send, the    *)
(* consumer goroutine), the message pool, printMessage and the package     *)
(* lock mu with the administrative calls that use it.                      *)
(*                                                                         *)
(* Every action is one statement, or one run of statements that touches    *)
(* shared state at most once, of the Go source.  The package variables     *)
(* listener and ch are read and written without synchronisation in the     *)
(* source, so each read and each write of them is a step of its own.       *)
(***************************************************************************)
EXTENDS Integers, Sequences, FiniteSets, TLC

\* ------------------------------------------------------------------ bounds
\* Capacity of the channel made by SetListener (1000 in the source, scaled).
ChanCap == 2
\* Number of calls of Logger.send, Flush and of the administrative functions.
MaxSends == 2
MaxFlushes == 2
MaxAdmin == 2

\* ----------------------------------------------------------------- threads
Producers == {"p1", "p2"}
Flushers == {"f1", "f2"}
Admins == {"a1", "a2"}
\* The listener functions handed to SetListener; Nil is Go's nil.
Nil == 0
Funcs == {1, 2}

VARIABLES
    listener,   \* var listener func(*Message): Nil or a member of Funcs
    ch,         \* var ch chan *Message: Nil or an index of chans
    chans,      \* the channels made so far: [buf, closed]
    cons,       \* the consumer goroutines started so far: [pc, msg, ch, cur]
    msgPool,    \* msgPool: the idle *Message objects
    msgs,       \* the *Message objects allocated so far: [typ, content, data,
                \* text: the error the content was built from, or ""]
    mu,         \* mu sync.RWMutex: [w: the writer or "none", r: the readers]
    out,        \* var out io.Writer
    debug,      \* var debug bool
    ldata,      \* defaultLogger.data
    bufPool,    \* bufPool: the idle *buffer objects
    nbuf,       \* the number of *buffer objects allocated so far
    ppc, pmsg, pch,     \* producers: position in send, stack of messages held (one
                        \* per nested call of send), channel parked on
    pbuf, pdata,        \* producers: buffer held, call-site data of the call
    perr,               \* producers: the error handed to Logger.error, or "nil"
    ptyp,               \* producers: the type of the metric call under way
    mcalls,             \* history: the metric calls made, [kind, name]
    fpc, fch,           \* Flush callers: position, channel parked on
    apc, aarg,          \* administrative callers: position, argument
    araise,             \* administrative callers: the value of panic(err), or "nil"
    arg, ret,           \* a call of a function without shared state: its argument
                        \* and its result
    stream,             \* listen: the bytes of the input not read yet
    sbuf, sstart, scap, \* listen: the scanner's data s.buf[s.start:s.end], s.start
                        \* and len(s.buf)
    serr,               \* listen: the scanner's error, "nil", "EOF", "ErrTooLong"
    lpc, tok,           \* listen: position of Listen, the token of the scanner
    lphase,             \* listen: the call under way: "Init", "InitDone" when Init
                        \* has returned, "Listen"
    lmsg, lret,         \* listen: var msg *Message, and what Init returned
    heap,               \* loggers: the arrays allocated for []KVPair slices
    loggers,            \* loggers: the data of each *Logger, the slice [arr, len]
    lwant,              \* loggers: history, the pairs each logger inherited or
                        \* was set to, followed by the pairs added to it
    ncalls,             \* loggers: calls made so far
    handled, errs,      \* listen: history of handler(msg) and of errorHandler
    live,       \* the threads of this run
    env,        \* the callers of this run: [data: the call-site data they pass,
                \* outcomes: the outcomes of writes, orderly: whether SetListener
                \* is called only while no send and no Flush is under way]
    nsend, nflush, nadmin,  \* calls made so far
    enq,        \* history: contents in the order their enqueue completed
    delivered,  \* history: [n, lis, by] in the order the listener was invoked
    printed,    \* history: [n, typ, text, data, w] in the order records were
                \* written to out
    fcall, fmark, \* history: Len(enq) when Flush was called / its sentinel enqueued
    atclose,    \* history: the messages pending in the channel at the last close(ch)
    parkedlog,  \* history: the contents whose producer parked on a full channel
    stderr      \* history: the reports written to os.Stderr, [n, ok]

vars == <<listener, ch, chans, cons, msgPool, msgs, mu, out, debug, ldata,
          bufPool, nbuf, ppc, pmsg, pch, pbuf, pdata, fpc, fch, apc, aarg, live, env, nsend, nflush, nadmin,
          enq, delivered, printed, fcall, fmark, atclose, parkedlog,
          perr, ptyp, mcalls, araise, arg, ret,
          stream, sbuf, sstart, scap, serr, lpc, tok, handled, errs,
          lphase, lmsg, lret, stderr, heap, loggers, lwant, ncalls>>

vQueue == <<listener, ch, chans, cons>>
vPool == <<msgPool, msgs>>
vBuf == <<bufPool, nbuf>>
vLock == <<mu, out, debug, ldata>>
vProd == <<ppc, pmsg, pch, pbuf, pdata>>
vFlush == <<fpc, fch, fcall, fmark>>
vAdmin == <<apc, aarg>>
vCount == <<live, env, nsend, nflush, nadmin>>
vHist == <<enq, delivered, printed, atclose, parkedlog, stderr>>
vPure == <<arg, ret>>
vMetric == <<ptyp, mcalls>>
vListen == <<stream, sbuf, sstart, scap, serr, lpc, tok, handled, errs, lphase, lmsg, lret>>
vLoggers == <<heap, loggers, lwant, ncalls>>
vExt == <<perr, vMetric, araise, vPure, vListen, vLoggers>>

\* ---------------------------------------------------------------- channels
NewChan == [buf |-> <<>>, closed |-> FALSE]

\* Faulty variant of CanSend: the channel has no capacity limit.
CanSendUnbounded(k) == k # Nil /\ ~chans[k].closed

\* A send on channel k completes now.
CanSend(k) == k # Nil /\ ~chans[k].closed /\ Len(chans[k].buf) < ChanCap

\* A send on channel k panics: the channel is closed.
SendPanics(k) == k # Nil /\ chans[k].closed

\* Faulty variant of Enqueue: the channel is a stack.
EnqueueFront(buf, x) == <<x>> \o buf

\* The channel after x was sent on it.
Enqueue(buf, x) == Append(buf, x)

\* ------------------------------------------------------------------- data
\* Arguments of the logging calls: strings (sequences of characters) and ints.
StrArg(s) == [t |-> "string", v |-> s]
IntArg(i) == [t |-> "int", v |-> i]

\* The characters isKeyValid rejects.
BadKeyChars == {":", "=", "\t", "\n"}

isKeyValid(key) ==
    IF key = <<>> THEN "errKeyEmpty"
    ELSE IF \E i \in 1..Len(key) : key[i] \in BadKeyChars THEN "errKeyInvalid"
    ELSE "nil"

\* filterDataValue: strings and ints are kept as they are.
filterDataValue(v) == v

\* Data.appendData: [d: the list after the call, err: the error returned].
\* The pairs before the first bad key have been appended when it fails.
RECURSIVE appendPairs(_, _, _)
appendPairs(d, data, i) ==
    IF i >= Len(data) \div 2 THEN [d |-> d, err |-> "nil"]
    ELSE IF data[2 * i + 1].t # "string" THEN [d |-> d, err |-> "errKeyNotString"]
    ELSE IF isKeyValid(data[2 * i + 1].v) # "nil"
         THEN [d |-> d, err |-> isKeyValid(data[2 * i + 1].v)]
    ELSE appendPairs(Append(d, [Key |-> data[2 * i + 1].v,
                                Value |-> filterDataValue(data[2 * i + 2])]),
                     data, i + 1)

\* Faulty variant of appendData: the length of the list is not checked.
appendDataAnyLength(d, data) == appendPairs(d, data, 0)

appendData(d, data) ==
    IF Len(data) % 2 # 0 THEN [d |-> d, err |-> "errOddNumArgs"]
    ELSE appendPairs(d, data, 0)

\* Faulty variant of Data.Get: the first pair with the key is returned.
DataGetFirst(d, key) ==
    LET at == {i \in 1..Len(d) : d[i].Key = key}
    IN IF at = {} THEN [value |-> [t |-> "nil", v |-> 0], ok |-> FALSE]
       ELSE [value |-> d[CHOOSE i \in at : \A j \in at : i <= j].Value, ok |-> TRUE]

\* Data.Get, the loop from pair i on, with the value and ok it has reached.
RECURSIVE DataGetLoop(_, _, _, _)
DataGetLoop(d, key, i, r) ==
    IF i > Len(d) THEN r
    ELSE DataGetLoop(d, key, i + 1,
                     IF d[i].Key = key THEN [value |-> d[i].Value, ok |-> TRUE] ELSE r)

\* Data.Get: [value, ok]; the value nil is [t |-> "nil"].
DataGet(d, key) == DataGetLoop(d, key, 1, [value |-> [t |-> "nil", v |-> 0], ok |-> FALSE])

\* Call-site data of the modelled logging calls: none, one pair, an odd list.
NoData == <<>>
OnePair == <<StrArg(<<"k">>), IntArg(1)>>
OddData == <<StrArg(<<"k">>)>>

\* ------------------------------------------------------------------ pools
\* sync.Pool.Get: an idle object, or a new one (Get may ignore the pool).
PoolGet(pool, n) == pool \cup {n + 1}

\* getMessage / putMessage
getMessage(m) == m \in PoolGet(msgPool, Len(msgs))

MsgsAfterGet(m, typ, n) ==
    IF m > Len(msgs)
    THEN Append(msgs, [typ |-> typ, content |-> n, data |-> <<>>, text |-> ""])
    ELSE [msgs EXCEPT ![m].typ = typ, ![m].content = n, ![m].text = ""]

putMessage(m) ==
    /\ msgs' = [msgs EXCEPT ![m].data = <<>>]
    /\ msgPool' = msgPool \cup {m}

\* getBuffer / putBuffer
getBuffer(b) == b \in PoolGet(bufPool, nbuf)

BufTaken(b) ==
    /\ bufPool' = bufPool \ {b}
    /\ nbuf' = IF b > nbuf THEN b ELSE nbuf

putBuffer(b) ==
    /\ bufPool' = bufPool \cup {b}
    /\ nbuf' = nbuf

\* --------------------------------------------------------------------- mu
RLock(t) == mu.w = "none" /\ mu' = [mu EXCEPT !.r = @ \cup {t}]
RUnlock(t) == mu' = [mu EXCEPT !.r = @ \ {t}]
Lock(t) == mu.w = "none" /\ mu.r = {} /\ mu' = [mu EXCEPT !.w = t]
Unlock(t) == mu' = [mu EXCEPT !.w = "none"]

\* ---------------------------------------------------------------- callers
\* No call of SetListener is under way.
NoSetListener == \A a \in DOMAIN apc : apc[a] = "idle"

\* No call of send and no call of Flush is under way.
NoCall == (\A p \in DOMAIN ppc : ppc[p] = "idle") /\ (\A f \in DOMAIN fpc : fpc[f] = "idle")

\* ------------------------------------------------------------- Logger.send
Top(p) == pmsg[p][Len(pmsg[p])]

\* send returns: the caller's frame is popped; a nested call (made by
\* Logger.error from inside send) returns to line 330 of the outer call.
SendReturns(p) ==
    /\ pmsg' = [pmsg EXCEPT ![p] = SubSeq(@, 1, Len(@) - 1)]
    /\ ppc' = [ppc EXCEPT ![p] = IF Len(pmsg[p]) > 1 THEN "check" ELSE "idle"]

\* A logging call (Info) enters send: msg := getMessage(); msg.Type, msg.Content.
SendGet(p) ==
    /\ p \in live /\ ppc[p] = "idle" /\ nsend < MaxSends
    /\ env.orderly => NoSetListener
    /\ \E m \in PoolGet(msgPool, Len(msgs)), d \in env.data :
        /\ getMessage(m)
        /\ appendData(<<>>, d).err # "nil" => nsend + 1 < MaxSends
        /\ msgPool' = msgPool \ {m}
        /\ msgs' = MsgsAfterGet(m, "INFO ", nsend + 1)
        /\ pmsg' = [pmsg EXCEPT ![p] = <<m>>]
        /\ pdata' = [pdata EXCEPT ![p] = d]
    /\ nsend' = nsend + 1
    /\ ppc' = [ppc EXCEPT ![p] = "rlock"]
    /\ UNCHANGED <<vQueue, vLock, vBuf, pch, pbuf, vFlush, vAdmin, live, env, vExt,
                   nflush, nadmin, vHist>>

\* mu.RLock(); msg.Data = append(msg.Data, l.data...)
SendRLock(p) ==
    /\ ppc[p] = "rlock"
    /\ RLock(p)
    /\ msgs' = [msgs EXCEPT ![Top(p)].data = @ \o ldata]
    /\ ppc' = [ppc EXCEPT ![p] = "runlock"]
    /\ UNCHANGED <<vQueue, msgPool, out, debug, ldata, vBuf, pmsg, pch, pbuf, pdata,
                   vFlush, vAdmin, vCount, vExt, vHist>>

\* mu.RUnlock(); if len(data) > 0 { err := msg.Data.appendData(data) ... }
SendRUnlock(p) ==
    /\ ppc[p] = "runlock"
    /\ RUnlock(p)
    /\ LET r == appendData(msgs[Top(p)].data, pdata[p]) IN
        /\ msgs' = [msgs EXCEPT ![Top(p)].data = r.d]
        /\ ppc' = [ppc EXCEPT ![p] = IF r.err = "nil" THEN "check" ELSE "errbuf"]
        /\ perr' = [perr EXCEPT ![p] = r.err]
    /\ pdata' = [pdata EXCEPT ![p] = <<>>]
    /\ UNCHANGED <<vQueue, msgPool, out, debug, ldata, vBuf, pmsg, pch, pbuf,
                   vFlush, vAdmin, vCount, vMetric, araise, vPure, vListen, vHist,
                   vLoggers>>

\* Logger.error: buf := getBuffer(); buf.appendValue(v)
ErrorGetBuffer(p) ==
    /\ ppc[p] = "errbuf"
    /\ \E b \in PoolGet(bufPool, nbuf) :
        /\ getBuffer(b)
        /\ BufTaken(b)
        /\ pbuf' = [pbuf EXCEPT ![p] = b]
    /\ ppc' = [ppc EXCEPT ![p] = "errlock"]
    /\ UNCHANGED <<vQueue, vPool, vLock, pmsg, pch, pdata, vFlush, vAdmin, vCount, vExt,
                   vHist>>

\* Logger.error: mu.Lock(); the stack trace is appended to buf
ErrorLock(p) ==
    /\ ppc[p] = "errlock"
    /\ Lock(p)
    /\ ppc' = [ppc EXCEPT ![p] = "errunlock"]
    /\ UNCHANGED <<vQueue, vPool, out, debug, ldata, vBuf, pmsg, pch, pbuf, pdata,
                   vFlush, vAdmin, vCount, vExt, vHist>>

\* Logger.error: mu.Unlock(); buf.String() puts the buffer back; l.send(typ, ...)
\* is entered: msg := getMessage().  The nested send is counted as a send.
ErrorUnlockSend(p) ==
    /\ ppc[p] = "errunlock"
    /\ Unlock(p)
    /\ putBuffer(pbuf[p])
    /\ pbuf' = [pbuf EXCEPT ![p] = Nil]
    /\ \E m \in PoolGet(msgPool, Len(msgs)) :
        /\ getMessage(m)
        /\ msgPool' = msgPool \ {m}
        /\ msgs' = [MsgsAfterGet(m, "ERROR", nsend + 1) EXCEPT ![m].text = perr[p]]
        /\ pmsg' = [pmsg EXCEPT ![p] = Append(@, m)]
    /\ perr' = [perr EXCEPT ![p] = "nil"]
    /\ nsend' = nsend + 1
    /\ ppc' = [ppc EXCEPT ![p] = "rlock"]
    /\ UNCHANGED <<vQueue, out, debug, ldata, pch, pdata, vFlush, vAdmin, live,
                   env, vMetric, araise, vPure, vListen, nflush, nadmin, vHist, vLoggers>>

\* if listener == nil
SendCheck(p) ==
    /\ ppc[p] = "check"
    /\ ppc' = [ppc EXCEPT ![p] = IF listener = Nil THEN "print" ELSE "enq"]
    /\ UNCHANGED <<vQueue, vPool, vLock, vBuf, pmsg, pch, pbuf, pdata, vFlush,
                   vAdmin, vCount, vExt, vHist>>

\* Faulty variant of SendCompletes: send goes on to putMessage after ch <- msg.
SendCompletesThenPut(p, k) ==
    /\ chans' = [chans EXCEPT ![k].buf = Enqueue(@, Top(p))]
    /\ enq' = Append(enq, msgs[Top(p)].content)
    /\ pch' = [pch EXCEPT ![p] = Nil]
    /\ parkedlog' = parkedlog
    /\ pmsg' = pmsg
    /\ ppc' = [ppc EXCEPT ![p] = "put"]

\* The send of the message on channel k completes.
SendCompletes(p, k) ==
    /\ chans' = [chans EXCEPT ![k].buf = Enqueue(@, Top(p))]
    /\ enq' = Append(enq, msgs[Top(p)].content)
    /\ pch' = [pch EXCEPT ![p] = Nil]
    /\ parkedlog' = parkedlog
    /\ SendReturns(p)

\* ch <- msg: ch is read; the send completes, panics (closed channel), or
\* the producer parks on the channel (full, or nil: then for ever).
SendEnq(p) ==
    /\ ppc[p] = "enq"
    /\ IF CanSend(ch) THEN SendCompletes(p, ch)
       ELSE /\ ppc' = [ppc EXCEPT ![p] = IF SendPanics(ch) THEN "sendpanic" ELSE "parked"]
            /\ pch' = [pch EXCEPT ![p] = ch]
            /\ parkedlog' = IF SendPanics(ch) \/ ch = Nil THEN parkedlog
                            ELSE parkedlog \cup {msgs[Top(p)].content}
            /\ UNCHANGED <<chans, enq, pmsg>>
    /\ UNCHANGED <<listener, ch, cons, vPool, vLock, vBuf, pbuf, pdata, vFlush,
                   vAdmin, vCount, vExt, delivered, printed, atclose, stderr>>

\* A producer parked on a full channel is woken: by a receive, or by close.
SendWake(p) ==
    /\ ppc[p] = "parked" /\ pch[p] # Nil
    /\ \/ CanSend(pch[p]) /\ SendCompletes(p, pch[p])
       \/ /\ SendPanics(pch[p])
          /\ ppc' = [ppc EXCEPT ![p] = "sendpanic"]
          /\ UNCHANGED <<chans, enq, pmsg, pch, parkedlog>>
    /\ UNCHANGED <<listener, ch, cons, vPool, vLock, vBuf, pbuf, pdata, vFlush,
                   vAdmin, vCount, vExt, delivered, printed, atclose, stderr>>

\* ------------------------------------------------------------ printMessage
\* The outcomes of out.Write and of the report to os.Stderr that follows a
\* failed write.
WriteOutcomes == {"ok", "failed", "stderrFailed"}

\* buf := getBuffer(); the record is encoded into buf; mu.RLock()
PrintRLock(p) ==
    /\ ppc[p] = "print"
    /\ RLock(p)
    /\ \E b \in PoolGet(bufPool, nbuf) :
        /\ getBuffer(b)
        /\ BufTaken(b)
        /\ pbuf' = [pbuf EXCEPT ![p] = b]
    /\ ppc' = [ppc EXCEPT ![p] = "write"]
    /\ UNCHANGED <<vQueue, vPool, out, debug, ldata, pmsg, pch, pdata, vFlush,
                   vAdmin, vCount, vExt, vHist>>

\* Faulty variant of PrintWrite: the panic leaves the read lock held.
PrintWriteLocked(p) ==
    /\ ppc[p] = "write"
    /\ \E r \in env.outcomes :
        /\ printed' = IF r = "ok"
                      THEN Append(printed, [n |-> msgs[Top(p)].content,
                                            typ |-> msgs[Top(p)].typ,
                                            text |-> msgs[Top(p)].text,
                                            data |-> msgs[Top(p)].data,
                                            w |-> out])
                      ELSE printed
        /\ stderr' = IF r = "ok" THEN stderr
                      ELSE Append(stderr, [n |-> msgs[Top(p)].content, ok |-> r = "failed"])
        /\ ppc' = [ppc EXCEPT ![p] = IF r = "stderrFailed" THEN "panic" ELSE "punlock"]
    /\ UNCHANGED <<vQueue, vPool, vLock, vBuf, pmsg, pch, pbuf, pdata,
                   vFlush, vAdmin, vCount, vExt, enq, delivered, atclose, parkedlog>>

\* out.Write(buf.buf); on an error the report to os.Stderr; when that fails
\* too: mu.RUnlock(); panic(...)
PrintWrite(p) ==
    /\ ppc[p] = "write"
    /\ \E r \in env.outcomes :
        /\ printed' = IF r = "ok"
                      THEN Append(printed, [n |-> msgs[Top(p)].content,
                                            typ |-> msgs[Top(p)].typ,
                                            text |-> msgs[Top(p)].text,
                                            data |-> msgs[Top(p)].data,
                                            w |-> out])
                      ELSE printed
        /\ stderr' = IF r = "ok" THEN stderr
                      ELSE Append(stderr, [n |-> msgs[Top(p)].content, ok |-> r = "failed"])
        /\ ppc' = [ppc EXCEPT ![p] = IF r = "stderrFailed" THEN "panic" ELSE "punlock"]
        /\ mu' = IF r = "stderrFailed" THEN [mu EXCEPT !.r = @ \ {p}] ELSE mu
    /\ UNCHANGED <<vQueue, vPool, out, debug, ldata, vBuf, pmsg, pch, pbuf, pdata,
                   vFlush, vAdmin, vCount, vExt, enq, delivered, atclose, parkedlog>>

\* mu.RUnlock(); putBuffer(buf)
PrintRUnlock(p) ==
    /\ ppc[p] = "punlock"
    /\ RUnlock(p)
    /\ putBuffer(pbuf[p])
    /\ pbuf' = [pbuf EXCEPT ![p] = Nil]
    /\ ppc' = [ppc EXCEPT ![p] = "put"]
    /\ UNCHANGED <<vQueue, vPool, out, debug, ldata, pmsg, pch, pdata, vFlush,
                   vAdmin, vCount, vExt, vHist>>

\* send, after printMessage(msg): putMessage(msg)
SendPut(p) ==
    /\ ppc[p] = "put"
    /\ putMessage(Top(p))
    /\ SendReturns(p)
    /\ UNCHANGED <<vQueue, vLock, vBuf, pch, pbuf, pdata, vFlush, vAdmin, vCount, vExt,
                   vHist>>

\* ------------------------------------------------------------------ Flush
\* Faulty variant of FlushCall: Flush does not look at listener.
FlushCallNoCheck(f) ==
    /\ f \in live /\ fpc[f] = "idle" /\ nflush < MaxFlushes
    /\ env.orderly => NoSetListener
    /\ nflush' = nflush + 1
    /\ fpc' = [fpc EXCEPT ![f] = "send"]
    /\ fcall' = [fcall EXCEPT ![f] = Len(enq)]
    /\ UNCHANGED <<vQueue, vPool, vLock, vBuf, vProd, fch, fmark, vAdmin, live,
                   env, vExt, nsend, nadmin, vHist>>

\* if listener != nil
FlushCall(f) ==
    /\ f \in live /\ fpc[f] = "idle" /\ nflush < MaxFlushes
    /\ env.orderly => NoSetListener
    /\ nflush' = nflush + 1
    /\ fpc' = [fpc EXCEPT ![f] = IF listener # Nil THEN "send" ELSE "noop"]
    /\ fcall' = [fcall EXCEPT ![f] = Len(enq)]
    /\ UNCHANGED <<vQueue, vPool, vLock, vBuf, vProd, fch, fmark, vAdmin, live,
                   env, vExt, nsend, nadmin, vHist>>

\* Faulty variant of FlushSent: Flush does not wait for waitFlush.
FlushSentNoWait(f, k) ==
    /\ chans' = [chans EXCEPT ![k].buf = Enqueue(@, Nil)]
    /\ fmark' = [fmark EXCEPT ![f] = Len(enq)]
    /\ fpc' = [fpc EXCEPT ![f] = "flushed"]
    /\ fch' = [fch EXCEPT ![f] = Nil]

\* The send of the nil sentinel on channel k completes; Flush goes on to
\* <-waitFlush.
FlushSent(f, k) ==
    /\ chans' = [chans EXCEPT ![k].buf = Enqueue(@, Nil)]
    /\ fmark' = [fmark EXCEPT ![f] = Len(enq)]
    /\ fpc' = [fpc EXCEPT ![f] = "wait"]
    /\ fch' = [fch EXCEPT ![f] = Nil]

\* ch <- nil
FlushSend(f) ==
    /\ fpc[f] = "send"
    /\ IF CanSend(ch) THEN FlushSent(f, ch)
       ELSE /\ fpc' = [fpc EXCEPT ![f] = IF SendPanics(ch) THEN "sendpanic" ELSE "parked"]
            /\ fch' = [fch EXCEPT ![f] = ch]
            /\ UNCHANGED <<chans, fmark>>
    /\ UNCHANGED <<listener, ch, cons, vPool, vLock, vBuf, vProd, fcall, vAdmin,
                   vCount, vExt, vHist>>

\* A Flush caller parked on a full channel is woken: by a receive, or by close.
FlushWake(f) ==
    /\ fpc[f] = "parked" /\ fch[f] # Nil
    /\ \/ CanSend(fch[f]) /\ FlushSent(f, fch[f])
       \/ /\ SendPanics(fch[f])
          /\ fpc' = [fpc EXCEPT ![f] = "sendpanic"]
          /\ UNCHANGED <<chans, fmark, fch>>
    /\ UNCHANGED <<listener, ch, cons, vPool, vLock, vBuf, vProd, fcall, vAdmin,
                   vCount, vExt, vHist>>

\* Flush returns.
FlushReturn(f) ==
    /\ fpc[f] \in {"noop", "flushed"}
    /\ fpc' = [fpc EXCEPT ![f] = "idle"]
    /\ UNCHANGED <<vQueue, vPool, vLock, vBuf, vProd, fch, fcall, fmark, vAdmin,
                   vCount, vExt, vHist>>

\* ---------------------------------------------------- consumer goroutine
SetCons(c, pc, m, k, cur) ==
    cons' = [cons EXCEPT ![c] = [pc |-> pc, msg |-> m, ch |-> k, cur |-> cur]]

\* msg, ok := <-k, when it completes: the head of the buffer, or ok = false
\* on a closed and empty channel.
Receive(c, k) ==
    IF chans[k].buf # <<>>
    THEN /\ chans' = [chans EXCEPT ![k].buf = Tail(@)]
         /\ SetCons(c, IF Head(chans[k].buf) = Nil THEN "sigflush" ELSE "handle",
                    Head(chans[k].buf), Nil, 0)
    ELSE /\ chans[k].closed
         /\ SetCons(c, "sigclosed", Nil, Nil, 0)
         /\ UNCHANGED chans

\* msg, ok := <-ch: ch is read; the receive completes or the consumer parks.
ConsRecv(c) ==
    /\ c \in DOMAIN cons /\ cons[c].pc = "recv"
    /\ IF ch # Nil /\ (chans[ch].buf # <<>> \/ chans[ch].closed)
       THEN Receive(c, ch)
       ELSE SetCons(c, "parked", Nil, ch, 0) /\ UNCHANGED chans
    /\ UNCHANGED <<listener, ch, vPool, vLock, vBuf, vProd, vFlush, vAdmin, vCount, vExt,
                   vHist>>

\* The parked consumer is woken: by a send, or by close.
ConsWake(c) ==
    /\ c \in DOMAIN cons /\ cons[c].pc = "parked" /\ cons[c].ch # Nil
    /\ chans[cons[c].ch].buf # <<>> \/ chans[cons[c].ch].closed
    /\ Receive(c, cons[c].ch)
    /\ UNCHANGED <<listener, ch, vPool, vLock, vBuf, vProd, vFlush, vAdmin, vCount, vExt,
                   vHist>>

\* listener(msg): listener is read and called (a nil func panics).
ConsCall(c) ==
    /\ c \in DOMAIN cons /\ cons[c].pc = "handle"
    /\ IF listener = Nil
       THEN SetCons(c, "panic", cons[c].msg, Nil, 0) /\ UNCHANGED delivered
       ELSE /\ delivered' = Append(delivered, [n |-> msgs[cons[c].msg].content,
                                               lis |-> listener, by |-> c])
            /\ SetCons(c, "inlistener", cons[c].msg, Nil, Len(delivered) + 1)
    /\ UNCHANGED <<listener, ch, chans, vPool, vLock, vBuf, vProd, vFlush, vAdmin,
                   vCount, vExt, enq, printed, atclose, parkedlog, stderr>>

\* The listener returns; putMessage(msg)
ConsPut(c) ==
    /\ c \in DOMAIN cons /\ cons[c].pc = "inlistener"
    /\ putMessage(cons[c].msg)
    /\ SetCons(c, "recv", Nil, Nil, 0)
    /\ UNCHANGED <<listener, ch, chans, vLock, vBuf, vProd, vFlush, vAdmin, vCount, vExt,
                   vHist>>

\* waitFlush <- struct{}{} meets <-waitFlush of a Flush caller.
ConsSignalFlush(c, f) ==
    /\ c \in DOMAIN cons /\ cons[c].pc = "sigflush"
    /\ fpc[f] = "wait"
    /\ SetCons(c, "recv", Nil, Nil, 0)
    /\ fpc' = [fpc EXCEPT ![f] = "flushed"]
    /\ UNCHANGED <<listener, ch, chans, vPool, vLock, vBuf, vProd, fch, fcall, fmark,
                   vAdmin, vCount, vExt, vHist>>

\* ------------------------------------------------------------- SetListener
\* SetListener(f) is called; case listener == nil && f != nil
SetListenerCase1(a) ==
    /\ a \in live /\ apc[a] = "idle" /\ nadmin < MaxAdmin
    /\ env.orderly => NoCall /\ NoSetListener
    /\ nadmin' = nadmin + 1
    /\ \E f \in Funcs \cup {Nil} :
        /\ aarg' = [aarg EXCEPT ![a] = f]
        /\ apc' = [apc EXCEPT ![a] = IF listener = Nil /\ f # Nil THEN "start"
                                     ELSE "case2"]
    /\ UNCHANGED <<vQueue, vPool, vLock, vBuf, vProd, vFlush, live, env, vExt, nsend,
                   nflush, vHist>>

\* case listener != nil && f == nil
SetListenerCase2(a) ==
    /\ apc[a] = "case2"
    /\ apc' = [apc EXCEPT ![a] = IF listener # Nil /\ aarg[a] = Nil THEN "close"
                                 ELSE "case3"]
    /\ UNCHANGED <<vQueue, vPool, vLock, vBuf, vProd, vFlush, aarg, vCount, vExt, vHist>>

\* case listener != nil && f != nil; no case applies: SetListener returns
SetListenerCase3(a) ==
    /\ apc[a] = "case3"
    /\ apc' = [apc EXCEPT ![a] = IF listener # Nil /\ aarg[a] # Nil THEN "replace"
                                 ELSE "idle"]
    /\ UNCHANGED <<vQueue, vPool, vLock, vBuf, vProd, vFlush, aarg, vCount, vExt, vHist>>

\* listener = f (start)
StartSetListener(a) ==
    /\ apc[a] = "start"
    /\ listener' = aarg[a]
    /\ apc' = [apc EXCEPT ![a] = "make"]
    /\ UNCHANGED <<ch, chans, cons, vPool, vLock, vBuf, vProd, vFlush, aarg, vCount, vExt,
                   vHist>>

\* ch = make(chan *Message, 1000)
StartMakeChan(a) ==
    /\ apc[a] = "make"
    /\ chans' = Append(chans, NewChan)
    /\ ch' = Len(chans) + 1
    /\ apc' = [apc EXCEPT ![a] = "go"]
    /\ UNCHANGED <<listener, cons, vPool, vLock, vBuf, vProd, vFlush, aarg, vCount, vExt,
                   vHist>>

\* go func() { for { ... } }(); SetListener returns
StartGo(a) ==
    /\ apc[a] = "go"
    /\ cons' = Append(cons, [pc |-> "recv", msg |-> Nil, ch |-> Nil, cur |-> 0])
    /\ apc' = [apc EXCEPT ![a] = "idle"]
    /\ UNCHANGED <<listener, ch, chans, vPool, vLock, vBuf, vProd, vFlush, aarg,
                   vCount, vExt, vHist>>

\* close(ch): ch is read; closing a closed or a nil channel panics.
StopClose(a) ==
    /\ apc[a] = "close"
    /\ IF ch # Nil /\ ~chans[ch].closed
       THEN /\ chans' = [chans EXCEPT ![ch].closed = TRUE]
            /\ atclose' = Len(SelectSeq(chans[ch].buf, LAMBDA x : x # Nil))
            /\ apc' = [apc EXCEPT ![a] = "waitclosed"]
       ELSE /\ apc' = [apc EXCEPT ![a] = "panic"]
            /\ UNCHANGED <<chans, atclose>>
    /\ UNCHANGED <<listener, ch, cons, vPool, vLock, vBuf, vProd, vFlush, aarg,
                   vCount, vExt, enq, delivered, printed, parkedlog, stderr>>

\* Faulty variant of StopWaitClosed: SetListener(nil) does not wait for the consumer.
StopNoWait(a, c) ==
    /\ apc[a] = "waitclosed"
    /\ c \in DOMAIN cons
    /\ apc' = [apc EXCEPT ![a] = "clear"]
    /\ UNCHANGED <<vQueue, vPool, vLock, vBuf, vProd, vFlush, aarg, vCount, vExt, vHist>>

\* closed <- struct{}{}; return of the consumer meets <-closed of SetListener.
StopWaitClosed(a, c) ==
    /\ apc[a] = "waitclosed"
    /\ c \in DOMAIN cons /\ cons[c].pc = "sigclosed"
    /\ SetCons(c, "exited", Nil, Nil, 0)
    /\ apc' = [apc EXCEPT ![a] = "clear"]
    /\ UNCHANGED <<listener, ch, chans, vPool, vLock, vBuf, vProd, vFlush, aarg,
                   vCount, vExt, vHist>>

\* listener = nil; SetListener returns
StopClearListener(a) ==
    /\ apc[a] = "clear"
    /\ listener' = Nil
    /\ apc' = [apc EXCEPT ![a] = "idle"]
    /\ UNCHANGED <<ch, chans, cons, vPool, vLock, vBuf, vProd, vFlush, aarg, vCount, vExt,
                   vHist>>

\* Faulty variant of ReplaceListener: the replacement makes a new channel.
ReplaceRestart(a) ==
    /\ apc[a] = "replace"
    /\ listener' = aarg[a]
    /\ chans' = Append(chans, NewChan)
    /\ ch' = Len(chans) + 1
    /\ apc' = [apc EXCEPT ![a] = "idle"]
    /\ UNCHANGED <<cons, vPool, vLock, vBuf, vProd, vFlush, aarg, vCount, vExt, vHist>>

\* listener = f (replace); SetListener returns
ReplaceListener(a) ==
    /\ apc[a] = "replace"
    /\ listener' = aarg[a]
    /\ apc' = [apc EXCEPT ![a] = "idle"]
    /\ UNCHANGED <<ch, chans, cons, vPool, vLock, vBuf, vProd, vFlush, aarg, vCount, vExt,
                   vHist>>

\* ------------------------------------------------------------------- Init
InitSay(threads, e) ==
    /\ listener = Nil
    /\ ch = Nil
    /\ chans = <<>>
    /\ cons = <<>>
    /\ msgPool = {}
    /\ msgs = <<>>
    /\ mu = [w |-> "none", r |-> {}]
    /\ out = "stdout"
    /\ debug = FALSE
    /\ ldata = <<>>
    /\ bufPool = {}
    /\ nbuf = 0
    /\ ppc = [p \in Producers |-> "idle"]
    /\ pmsg = [p \in Producers |-> <<>>]
    /\ pbuf = [p \in Producers |-> Nil]
    /\ pdata = [p \in Producers |-> <<>>]
    /\ pch = [p \in Producers |-> Nil]
    /\ fpc = [f \in Flushers |-> "idle"]
    /\ fch = [f \in Flushers |-> Nil]
    /\ apc = [a \in Admins |-> "idle"]
    /\ aarg = [a \in Admins |-> Nil]
    /\ live = threads
    /\ env = e
    /\ nsend = 0
    /\ nflush = 0
    /\ nadmin = 0
    /\ enq = <<>>
    /\ delivered = <<>>
    /\ printed = <<>>
    /\ fcall = [f \in Flushers |-> 0]
    /\ fmark = [f \in Flushers |-> 0]
    /\ atclose = 0
    /\ parkedlog = {}
    /\ stderr = <<>>
    /\ heap = <<>>
    /\ loggers = <<>>
    /\ lwant = <<>>
    /\ ncalls = 0
    /\ perr = [p \in Producers |-> "nil"]
    /\ ptyp = [p \in Producers |-> ""]
    /\ mcalls = <<>>
    /\ araise = [a \in Admins |-> "nil"]

\* A nil *Message of the listener.
NoMessage == [typ |-> <<>>, content |-> <<>>, rawData |-> <<>>, line |-> <<>>]

\* No input is listened to.
InitNoListen ==
    /\ stream = <<>> /\ sbuf = <<>> /\ sstart = 0 /\ scap = 0 /\ serr = "nil"
    /\ lpc = "off" /\ tok = <<>> /\ handled = <<>> /\ errs = <<>>
    /\ lphase = "Listen" /\ lmsg = NoMessage /\ lret = NoMessage

\* No function call is followed.
InitVars(threads, e) == InitSay(threads, e) /\ arg = Nil /\ ret = Nil /\ InitNoListen

\* ---------------------------------------------- Redirect, SetDebug, data
Writers == {"stdout", "w1"}

\* Redirect(w): mu.Lock()
RedirectLock(a) ==
    /\ a \in live /\ apc[a] = "idle" /\ nadmin < MaxAdmin
    /\ nadmin' = nadmin + 1
    /\ Lock(a)
    /\ \E w \in Writers : aarg' = [aarg EXCEPT ![a] = w]
    /\ apc' = [apc EXCEPT ![a] = "redirect"]
    /\ UNCHANGED <<vQueue, vPool, out, debug, ldata, vBuf, vProd, vFlush, live, env, vExt,
                   nsend, nflush, vHist>>

\* oldW, out = out, w
RedirectSwap(a) ==
    /\ apc[a] = "redirect"
    /\ out' = aarg[a]
    /\ apc' = [apc EXCEPT ![a] = "unlock"]
    /\ UNCHANGED <<vQueue, vPool, mu, debug, ldata, vBuf, vProd, vFlush, aarg, vCount, vExt,
                   vHist>>

\* mu.Unlock(); the call returns (Redirect, SetData without error, AddData).
AdminUnlock(a) ==
    /\ apc[a] = "unlock"
    /\ Unlock(a)
    /\ apc' = [apc EXCEPT ![a] = "idle"]
    /\ UNCHANGED <<vQueue, vPool, out, debug, ldata, vBuf, vProd, vFlush, aarg, vCount, vExt,
                   vHist>>

\* SetDebug(b): debug = b
SetDebug(a) ==
    /\ a \in live /\ apc[a] = "idle" /\ nadmin < MaxAdmin
    /\ nadmin' = nadmin + 1
    /\ \E b \in BOOLEAN : debug' = b
    /\ UNCHANGED <<vQueue, vPool, mu, out, ldata, vBuf, vProd, vFlush, vAdmin, live,
                   env, vExt, nsend, nflush, vHist>>

\* Logger.SetData(data...): mu.Lock()
SetDataLock(a) ==
    /\ a \in live /\ apc[a] = "idle" /\ nadmin < MaxAdmin
    /\ nadmin' = nadmin + 1
    /\ Lock(a)
    /\ \E d \in env.setdata : aarg' = [aarg EXCEPT ![a] = d]
    /\ apc' = [apc EXCEPT ![a] = "setdata"]
    /\ UNCHANGED <<vQueue, vPool, out, debug, ldata, vBuf, vProd, vFlush, live, env, vExt,
                   nsend, nflush, vHist>>

\* l.data = l.data[:0]; err := l.data.appendData(data)
SetDataApply(a) ==
    /\ apc[a] = "setdata"
    /\ ldata' = appendData(<<>>, aarg[a]).d
    /\ apc' = [apc EXCEPT ![a] = IF appendData(<<>>, aarg[a]).err = "nil"
                                 THEN "unlock" ELSE "unlockpanic"]
    /\ UNCHANGED <<vQueue, vPool, mu, out, debug, vBuf, vProd, vFlush, aarg, vCount, vExt,
                   vHist>>

\* mu.Unlock(); if err != nil { panic(err) }
SetDataUnlockPanic(a) ==
    /\ apc[a] = "unlockpanic"
    /\ Unlock(a)
    /\ apc' = [apc EXCEPT ![a] = "panic"]
    /\ araise' = [araise EXCEPT ![a] = appendData(<<>>, aarg[a]).err]
    /\ UNCHANGED <<vQueue, vPool, out, debug, ldata, vBuf, vProd, vFlush, aarg, vCount,
                   perr, vMetric, vPure, vListen, vHist, vLoggers>>

\* Logger.AddData(key, value): isKeyValid(key), panic on an error; mu.Lock()
AddDataLock(a) ==
    /\ a \in live /\ apc[a] = "idle" /\ nadmin < MaxAdmin
    /\ nadmin' = nadmin + 1
    /\ \E key \in {<<"k">>, <<>>} :
        IF isKeyValid(key) # "nil"
        THEN /\ apc' = [apc EXCEPT ![a] = "panic"]
             /\ araise' = [araise EXCEPT ![a] = isKeyValid(key)]
             /\ UNCHANGED <<mu, aarg>>
        ELSE /\ Lock(a)
             /\ aarg' = [aarg EXCEPT ![a] = [Key |-> key, Value |-> IntArg(2)]]
             /\ apc' = [apc EXCEPT ![a] = "adddata"]
             /\ UNCHANGED araise
    /\ UNCHANGED <<vQueue, vPool, out, debug, ldata, vBuf, vProd, vFlush, live, env,
                   perr, vMetric, vPure, vListen, nsend, nflush, vHist, vLoggers>>

\* l.data = append(l.data, KVPair{Key: key, Value: filterDataValue(value)})
AddDataAppend(a) ==
    /\ apc[a] = "adddata"
    /\ ldata' = Append(ldata, [Key |-> aarg[a].Key,
                               Value |-> filterDataValue(aarg[a].Value)])
    /\ apc' = [apc EXCEPT ![a] = "unlock"]
    /\ UNCHANGED <<vQueue, vPool, mu, out, debug, vBuf, vProd, vFlush, aarg, vCount, vExt,
                   vHist>>

\* ---------------------------------------------------------------- loggers
\* The data of a Logger is a slice []KVPair, [arr: the index of its array in
\* heap, 0 for a nil slice, len]; all these slices begin at the start of
\* their array, whose length is their capacity.
MaxLoggers == 3
MaxCalls == 4
NilSlice == [arr |-> 0, len |-> 0]
ZeroPair == [Key |-> <<>>, Value |-> [t |-> "nil", v |-> 0]]

cap(h, s) == IF s.arr = 0 THEN 0 ELSE Len(h[s.arr])

\* The elements of a slice.
elems(h, s) == IF s.arr = 0 THEN <<>> ELSE SubSeq(h[s.arr], 1, s.len)

\* The capacity append gives the array it allocates for one more element:
\* twice the old one, runtime.growslice for a small slice.
growslice(oldCap) == IF oldCap = 0 THEN 1 ELSE 2 * oldCap

\* append(s, x): [h: the heap after the call, s: the slice returned]; the
\* element is written into the array of s when it has room.
sliceAppend(h, s, x) ==
    IF s.len < cap(h, s)
    THEN [h |-> [h EXCEPT ![s.arr][s.len + 1] = x], s |-> [s EXCEPT !.len = s.len + 1]]
    ELSE LET new == [i \in 1..growslice(cap(h, s)) |->
                        IF i <= s.len THEN h[s.arr][i]
                        ELSE IF i = s.len + 1 THEN x ELSE ZeroPair]
         IN [h |-> Append(h, new), s |-> [arr |-> Len(h) + 1, len |-> s.len + 1]]

\* Logger.NewLogger: log.data = l.data, the slice and not its elements.
sliceNewLogger(h, s) == [h |-> h, s |-> s]

\* Data.appendData on a slice, from pair i on: [h, s, err].
RECURSIVE sliceAppendPairs(_, _, _, _)
sliceAppendPairs(h, s, data, i) ==
    IF i >= Len(data) \div 2 THEN [h |-> h, s |-> s, err |-> "nil"]
    ELSE IF data[2 * i + 1].t # "string" THEN [h |-> h, s |-> s, err |-> "errKeyNotString"]
    ELSE IF isKeyValid(data[2 * i + 1].v) # "nil"
         THEN [h |-> h, s |-> s, err |-> isKeyValid(data[2 * i + 1].v)]
    ELSE LET r == sliceAppend(h, s, [Key |-> data[2 * i + 1].v,
                                     Value |-> filterDataValue(data[2 * i + 2])])
         IN sliceAppendPairs(r.h, r.s, data, i + 1)

sliceAppendData(h, s, data) ==
    IF Len(data) % 2 # 0 THEN [h |-> h, s |-> s, err |-> "errOddNumArgs"]
    ELSE sliceAppendPairs(h, s, data, 0)

\* log := new(say.Logger)
LoggerNew ==
    /\ loggers = <<>> /\ ncalls < MaxCalls
    /\ ncalls' = ncalls + 1
    /\ loggers' = <<NilSlice>>
    /\ lwant' = <<(<<>>)>>
    /\ UNCHANGED <<vQueue, vPool, vLock, vBuf, vProd, vFlush, vAdmin, vCount, vHist,
                   perr, vMetric, araise, vPure, vListen, heap>>

\* l.NewLogger(): log.data = l.data
LoggerNewLogger(l) ==
    /\ l \in DOMAIN loggers /\ Len(loggers) < MaxLoggers /\ ncalls < MaxCalls
    /\ ncalls' = ncalls + 1
    /\ LET r == sliceNewLogger(heap, loggers[l])
       IN heap' = r.h /\ loggers' = Append(loggers, r.s)
    /\ lwant' = Append(lwant, elems(heap, loggers[l]))
    /\ UNCHANGED <<vQueue, vPool, vLock, vBuf, vProd, vFlush, vAdmin, vCount, vHist,
                   perr, vMetric, araise, vPure, vListen>>

\* The argument lists of the modelled calls of l.SetData: one pair, two pairs.
LoggerLists ==
    {<<StrArg(<<"k">>), IntArg(1)>>,
     <<StrArg(<<"j">>), IntArg(5), StrArg(<<"k">>), IntArg(6)>>}

\* l.SetData(data...): l.data = l.data[:0]; l.data.appendData(data)
LoggerSetData(l) ==
    /\ l \in DOMAIN loggers /\ ncalls < MaxCalls
    /\ ncalls' = ncalls + 1
    /\ \E d \in LoggerLists :
        LET r == sliceAppendData(heap, [loggers[l] EXCEPT !.len = 0], d)
        IN /\ heap' = r.h
           /\ loggers' = [loggers EXCEPT ![l] = r.s]
           /\ lwant' = [lwant EXCEPT ![l] = appendData(<<>>, d).d]
    /\ UNCHANGED <<vQueue, vPool, vLock, vBuf, vProd, vFlush, vAdmin, vCount, vHist,
                   perr, vMetric, araise, vPure, vListen>>

\* l.AddData(key, value): l.data = append(l.data, KVPair{key, value})
LoggerAddData(l) ==
    /\ l \in DOMAIN loggers /\ ncalls < MaxCalls
    /\ ncalls' = ncalls + 1
    /\ \E key \in {<<"k">>, <<"j">>} :
        LET pair == [Key |-> key, Value |-> filterDataValue(IntArg(2))]
            r == sliceAppend(heap, loggers[l], pair)
        IN /\ isKeyValid(key) = "nil"
           /\ heap' = r.h
           /\ loggers' = [loggers EXCEPT ![l] = r.s]
           /\ lwant' = [lwant EXCEPT ![l] = Append(@, pair)]
    /\ UNCHANGED <<vQueue, vPool, vLock, vBuf, vProd, vFlush, vAdmin, vCount, vHist,
                   perr, vMetric, araise, vPure, vListen>>

\* ----------------------------------------------------------- metric calls
\* Event, Events, Value, Gauge and Timing.Say, and the type of their record.
MetricKinds == {"Event", "Events", "Value", "Gauge", "Say"}

MetricType(kind) ==
    IF kind \in {"Event", "Events"} THEN "EVENT"
    ELSE IF kind \in {"Value", "Say"} THEN "VALUE"
    ELSE "GAUGE"

\* The names the modelled metric calls are made with.
MetricNames == {<<"k">>, <<>>, <<"\t">>, <<"k", ":">>, <<"=", "k">>, <<"k", "\n">>}

\* Faulty variant of MetricCall: the name is not validated.
MetricCallNoCheck(p) ==
    /\ p \in live /\ ppc[p] = "idle" /\ nsend < MaxSends
    /\ env.orderly => NoSetListener
    /\ \E kind \in MetricKinds, name \in MetricNames, d \in env.data :
        /\ mcalls' = Append(mcalls, [kind |-> kind, name |-> name])
        /\ appendData(<<>>, d).err # "nil" => nsend + 1 < MaxSends
        /\ pdata' = [pdata EXCEPT ![p] = d]
        /\ ptyp' = [ptyp EXCEPT ![p] = MetricType(kind)]
        /\ ppc' = [ppc EXCEPT ![p] = IF kind = "Event" THEN "msend" ELSE "mbuf"]
        /\ UNCHANGED perr
    /\ UNCHANGED <<vQueue, vPool, vLock, vBuf, pmsg, pch, pbuf, vFlush, vAdmin,
                   vCount, araise, vPure, vListen, vHist, vLoggers>>

\* if err := isKeyValid(name); err != nil { l.sendError(err, 1); return }
\* sendError enters Logger.error with err.
MetricCall(p) ==
    /\ p \in live /\ ppc[p] = "idle" /\ nsend < MaxSends
    /\ env.orderly => NoSetListener
    /\ \E kind \in MetricKinds, name \in MetricNames, d \in env.data :
        /\ mcalls' = Append(mcalls, [kind |-> kind, name |-> name])
        /\ IF isKeyValid(name) # "nil"
           THEN /\ perr' = [perr EXCEPT ![p] = isKeyValid(name)]
                /\ ppc' = [ppc EXCEPT ![p] = "errbuf"]
                /\ UNCHANGED <<pdata, ptyp>>
           ELSE /\ appendData(<<>>, d).err # "nil" => nsend + 1 < MaxSends
                /\ pdata' = [pdata EXCEPT ![p] = d]
                /\ ptyp' = [ptyp EXCEPT ![p] = MetricType(kind)]
                /\ ppc' = [ppc EXCEPT ![p] = IF kind = "Event" THEN "msend" ELSE "mbuf"]
                /\ UNCHANGED perr
    /\ UNCHANGED <<vQueue, vPool, vLock, vBuf, pmsg, pch, pbuf, vFlush, vAdmin,
                   vCount, araise, vPure, vListen, vHist, vLoggers>>

\* Events, keyValue, Timing.Say: buf := getBuffer(); the content is built
MetricGetBuffer(p) ==
    /\ ppc[p] = "mbuf"
    /\ \E b \in PoolGet(bufPool, nbuf) :
        /\ getBuffer(b)
        /\ BufTaken(b)
        /\ pbuf' = [pbuf EXCEPT ![p] = b]
    /\ ppc' = [ppc EXCEPT ![p] = "msend"]
    /\ UNCHANGED <<vQueue, vPool, vLock, pmsg, pch, pdata, vFlush, vAdmin, vCount,
                   vExt, vHist>>

\* l.send(typ, buf.String(), data): buf.String() puts the buffer back (Event
\* holds none); send is entered: msg := getMessage()
MetricSend(p) ==
    /\ ppc[p] = "msend"
    /\ IF pbuf[p] = Nil THEN UNCHANGED vBuf ELSE putBuffer(pbuf[p])
    /\ pbuf' = [pbuf EXCEPT ![p] = Nil]
    /\ \E m \in PoolGet(msgPool, Len(msgs)) :
        /\ getMessage(m)
        /\ msgPool' = msgPool \ {m}
        /\ msgs' = MsgsAfterGet(m, ptyp[p], nsend + 1)
        /\ pmsg' = [pmsg EXCEPT ![p] = <<m>>]
    /\ nsend' = nsend + 1
    /\ ppc' = [ppc EXCEPT ![p] = "rlock"]
    /\ UNCHANGED <<vQueue, vLock, pch, pdata, vFlush, vAdmin, live, env, nflush,
                   nadmin, vExt, vHist>>

MetricSteps(p) == MetricCall(p) \/ MetricGetBuffer(p) \/ MetricSend(p)

\* The argument lists the modelled calls of SetData are made with: valid,
\* odd, a key that is not a string, an empty key, a key with a reserved
\* character, and a bad key after a good pair.
DataLists ==
    {OnePair, OddData,
     <<StrArg(<<"k">>), IntArg(1), StrArg(<<"j">>)>>,
     <<IntArg(1), StrArg(<<"k">>)>>,
     <<StrArg(<<>>), IntArg(1)>>,
     <<StrArg(<<"k", "=">>), IntArg(1)>>,
     <<StrArg(<<"k">>), IntArg(1), StrArg(<<>>), IntArg(2)>>}

\* The sequences of up to n elements of a set.
RECURSIVE StringsUpTo(_, _)
StringsUpTo(runes, n) ==
    IF n = 0 THEN {<<>>}
    ELSE LET shorter == StringsUpTo(runes, n - 1)
         IN shorter \cup {Append(s, r) : s \in shorter, r \in runes}

\* ------------------------------------------------------- buffer (encoder)
\* A string is the sequence of its bytes; a byte is written as a string of one
\* character, and the bytes and runes that have no such notation by a name:
\* "^A" is the byte 0x01, "U+00E9" the rune e-acute, "xFF" the byte 0xff.
\* A constant text the encoders write is one element.

\* Message types (message.go:14-23).
TypeBytes(typ) ==
    CASE typ = "INFO " -> <<"I", "N", "F", "O", " ">>
      [] typ = "DEBUG" -> <<"D", "E", "B", "U", "G">>
      [] typ = "ERROR" -> <<"E", "R", "R", "O", "R">>

\* buffer.appendEscapeByte
appendEscapeByte(c) ==
    IF c = "\n" THEN <<"\n", " ", " ", " ", " ", " ", " ">> ELSE <<c>>

\* buffer.appendEscapeString
RECURSIVE appendEscapeString(_)
appendEscapeString(s) ==
    IF s = <<>> THEN <<>>
    ELSE appendEscapeByte(Head(s)) \o appendEscapeString(Tail(s))

\* strconv.IsPrint for the modelled runes.
IsPrint(r) == r \notin {"\n", "\t", "^A", "xFF"}

\* buffer.appendQuoteString, one rune: a quote and a backslash are
\* backslashed, a printable rune is copied, the others are escaped.
QuoteRune(r) ==
    IF r = "xFF" THEN <<"\\", "x", "f", "f">>
    ELSE IF r \in {"\"", "\\"} THEN <<"\\", r>>
    ELSE IF IsPrint(r) THEN <<r>>
    ELSE IF r = "\n" THEN <<"\\", "n">>
    ELSE IF r = "\t" THEN <<"\\", "t">>
    ELSE <<"\\", "x", "0", "1">>

RECURSIVE QuoteRunes(_)
QuoteRunes(s) ==
    IF s = <<>> THEN <<>> ELSE QuoteRune(Head(s)) \o QuoteRunes(Tail(s))

appendQuoteString(s) == <<"\"">> \o QuoteRunes(s) \o <<"\"">>

\* buffer.appendQuote is strconv.AppendQuote, which appendQuoteString adapts.
appendQuote(s) == appendQuoteString(s)

\* buffer.appendInt for the integers 0..9.
appendInt(i) == <<CASE i = 0 -> "0" [] i = 1 -> "1" [] i = 2 -> "2" [] i = 3 -> "3"
                    [] i = 4 -> "4" [] i = 5 -> "5" [] i = 6 -> "6" [] i = 7 -> "7"
                    [] i = 8 -> "8" [] i = 9 -> "9">>

\* A Hook and the value it yields when it is called; NoValue is nil.
NoValue == [t |-> "nil", v |-> 0]
HookArg(x) == [t |-> "hook", v |-> x]

\* buffer.appendDataValue: [b: the bytes appended, ok: the value returned].
RECURSIVE appendDataValue(_)
appendDataValue(v) ==
    IF v.t = "string" THEN [b |-> appendQuoteString(v.v), ok |-> TRUE]
    ELSE IF v.t = "hook"
         THEN IF v.v.t # "nil" THEN appendDataValue(v.v)
              ELSE [b |-> <<>>, ok |-> FALSE]
    ELSE [b |-> appendInt(v.v), ok |-> TRUE]

\* buffer.appendData, the loop from pair i on: [b, written].
RECURSIVE bufAppendPairs(_, _)
bufAppendPairs(data, i) ==
    IF i > Len(data) THEN [b |-> <<>>, written |-> FALSE]
    ELSE LET r == appendDataValue(data[i].Value)
             rest == bufAppendPairs(data, i + 1)
         IN IF r.ok
            THEN [b |-> <<" ">> \o data[i].Key \o <<"=">> \o r.b \o rest.b,
                  written |-> TRUE]
            ELSE rest

\* buffer.appendData: the bytes appended to the buffer.
bufAppendData(data) ==
    IF Len(data) = 0 THEN <<>>
    ELSE LET r == bufAppendPairs(data, 1)
         IN IF r.written THEN <<"\t", "|">> \o r.b ELSE <<>>

\* printMessage: the bytes handed to out.Write.
printBytes(msg) ==
    TypeBytes(msg.Type) \o <<" ">> \o appendEscapeString(msg.Content)
        \o bufAppendData(msg.Data) \o <<"\n">>

\* Message.WriteTo: the bytes handed to w.Write; "<time>" is the timestamp.
WriteToBytes(msg) ==
    <<"<time>", " ">> \o TypeBytes(msg.Type) \o <<" ">> \o msg.Content
        \o (IF Len(msg.Data) > 0 THEN bufAppendData(msg.Data) ELSE <<>>) \o <<"\n">>

\* Faulty variant of skipKey: the later pairs are not looked at.
skipKeyReserved(d, i) ==
    d[i].Key \in {<<"t", "i", "m", "e", "s", "t", "a", "m", "p">>, <<"t", "y", "p", "e">>,
                  <<"c", "o", "n", "t", "e", "n", "t">>}

\* Message.skipKey
ReservedKeys == {<<"t", "i", "m", "e", "s", "t", "a", "m", "p">>, <<"t", "y", "p", "e">>,
                 <<"c", "o", "n", "t", "e", "n", "t">>}

skipKey(d, i) ==
    \/ d[i].Key \in ReservedKeys
    \/ \E j \in (i + 1)..Len(d) : d[j].Key = d[i].Key

\* strings.TrimSuffix(string(m.Type), " ")
TrimSuffix(s) == IF Len(s) > 0 /\ s[Len(s)] = " " THEN SubSeq(s, 1, Len(s) - 1) ELSE s

\* Message.WriteJSONTo, the loop from pair i on: [b, written].
RECURSIVE jsonPairs(_, _)
jsonPairs(data, i) ==
    IF i > Len(data) THEN [b |-> <<>>, written |-> FALSE]
    ELSE LET rest == jsonPairs(data, i + 1)
         IN IF skipKey(data, i) THEN rest
            ELSE [b |-> <<", ">> \o appendQuote(data[i].Key) \o <<": ">>
                          \o appendDataValue(data[i].Value).b \o rest.b,
                  written |-> TRUE]

\* Message.WriteJSONTo: the bytes handed to w.Write.
WriteJSONToBytes(msg) ==
    <<"{\"timestamp\": \"", "<time>", "\", \"type\": \"">> \o TrimSuffix(TypeBytes(msg.Type))
        \o <<"\", \"content\": ">> \o appendQuote(msg.Content)
        \o (IF Len(msg.Data) > 0 /\ jsonPairs(msg.Data, 1).written
            THEN jsonPairs(msg.Data, 1).b ELSE <<>>)
        \o <<"}\n">>

\* -------------------------------------------------------- listen (parser)
\* The nine types (listen/message.go:16-30).
typeLen == 5
types ==
    {<<"E", "V", "E", "N", "T">>, <<"V", "A", "L", "U", "E">>, <<"G", "A", "U", "G", "E">>,
     <<"D", "E", "B", "U", "G">>, <<"I", "N", "F", "O", " ">>, <<"W", "A", "R", "N", " ">>,
     <<"E", "R", "R", "O", "R">>, <<"F", "A", "T", "A", "L">>, <<"I", "N", "I", "T", " ">>}

\* s[i:] and s[:i] of Go, for 0 <= i <= len(s).
From(s, i) == SubSeq(s, i + 1, Len(s))
UpTo(s, i) == SubSeq(s, 1, i)

\* getType: raw[:typeLen] if it is a type, "" (here <<>>) otherwise.
getType(raw) == IF UpTo(raw, typeLen) \in types THEN UpTo(raw, typeLen) ELSE <<>>

\* bytes.Index(raw, sep): the Go index of the first occurrence, or -1.
Index(raw, sep) ==
    LET at == {i \in 0..(Len(raw) - Len(sep)) : SubSeq(raw, i + 1, i + Len(sep)) = sep}
    IN IF at = {} THEN -1 ELSE CHOOSE i \in at : \A j \in at : i <= j

blankPrefix == <<" ", "\n", " ", " ", " ", " ", " ", " ">>

\* parseContent: bytes.Replace(raw, blankPrefix, "\n", -1)
RECURSIVE parseContent(_)
parseContent(raw) ==
    IF Len(raw) < Len(blankPrefix) THEN raw
    ELSE IF UpTo(raw, Len(blankPrefix)) = blankPrefix
         THEN <<"\n">> \o parseContent(From(raw, Len(blankPrefix)))
    ELSE <<Head(raw)>> \o parseContent(Tail(raw))

\* parseMessage: [content, rawData]; raw[i+3:] is out of range, and the
\* program panics, when the line ends with the separator.
parseMessage(raw) ==
    LET i == Index(raw, <<"\t", "|">>)
    IN IF i = -1 THEN [content |-> parseContent(raw), rawData |-> <<>>, panic |-> FALSE]
       ELSE IF i + 3 > Len(raw)
            THEN [content |-> parseContent(UpTo(raw, i)), rawData |-> <<>>, panic |-> TRUE]
       ELSE [content |-> parseContent(UpTo(raw, i)), rawData |-> From(raw, i + 3),
             panic |-> FALSE]

\* parseKey: [n, key]
parseKey(s) ==
    LET i == Index(s, <<"=">>)
    IN IF i = -1 THEN [n |-> 0, s |-> <<>>] ELSE [n |-> i + 1, s |-> UpTo(s, i)]

\* parseValue: [n, val]; a quoted value ends at the first quote after s[0].
parseValue(s) ==
    IF s[1] = "\""
    THEN LET i == Index(Tail(s), <<"\"">>)
         IN IF i = -1 THEN [n |-> 0, s |-> <<>>] ELSE [n |-> i + 2, s |-> UpTo(s, i + 2)]
    ELSE LET i == Index(s, <<" ">>)
         IN IF i = -1 THEN [n |-> Len(s), s |-> s] ELSE [n |-> i, s |-> UpTo(s, i)]

\* Message.Data, the loop: [ok, d]; ok is false where the code calls
\* invalidData and returns nil.
\* errs counts the calls of invalidData.
RECURSIVE parseDataPartial(_)
parseDataPartial(raw) ==
    IF raw = <<>> THEN [ok |-> TRUE, d |-> <<>>, errs |-> 0]
    ELSE LET k == parseKey(raw)
             raw1 == From(raw, k.n)
         IN IF k.n = 0 \/ raw1 = <<>> THEN [ok |-> FALSE, d |-> <<>>, errs |-> 1]
            ELSE LET v == parseValue(raw1)
                     raw2 == From(raw1, v.n)
                 IN IF v.n = 0 \/ (raw2 # <<>> /\ raw2[1] # " ")
                    THEN [ok |-> FALSE, d |-> <<>>, errs |-> 1]
                    ELSE LET rest == parseDataPartial(IF raw2 = <<>> THEN raw2
                                                      ELSE Tail(raw2))
                         IN [ok |-> rest.ok,
                             d |-> <<[Key |-> k.s, Value |-> v.s]>> \o rest.d,
                             errs |-> rest.errs]

RECURSIVE parseData(_)
parseData(raw) ==
    IF raw = <<>> THEN [ok |-> TRUE, d |-> <<>>, errs |-> 0]
    ELSE LET k == parseKey(raw)
             raw1 == From(raw, k.n)
         IN IF k.n = 0 \/ raw1 = <<>> THEN [ok |-> FALSE, d |-> <<>>, errs |-> 1]
            ELSE LET v == parseValue(raw1)
                     raw2 == From(raw1, v.n)
                 IN IF v.n = 0 \/ (raw2 # <<>> /\ raw2[1] # " ")
                    THEN [ok |-> FALSE, d |-> <<>>, errs |-> 1]
                    ELSE LET rest == parseData(IF raw2 = <<>> THEN raw2 ELSE Tail(raw2))
                         IN [ok |-> rest.ok,
                             d |-> IF rest.ok
                                   THEN <<[Key |-> k.s, Value |-> v.s]>> \o rest.d
                                   ELSE <<>>,
                             errs |-> rest.errs]

\* Message.Data: nil (ok false) without raw data or with invalid raw data.
MessageData(rawData) ==
    IF Len(rawData) = 0 THEN [ok |-> FALSE, d |-> <<>>, errs |-> 0]
    ELSE parseData(rawData)

\* Data.value: the value of the last pair with the key, or "".
value(d, key) ==
    LET at == {i \in 1..Len(d) : d[i].Key = key}
    IN IF at = {} THEN <<>> ELSE d[CHOOSE i \in at : \A j \in at : j <= i].Value

\* strconv.Unquote for a double-quoted string, the text between the quotes.
RECURSIVE UnquoteBody(_)
UnquoteBody(b) ==
    IF b = <<>> THEN [s |-> <<>>, ok |-> TRUE]
    ELSE IF b[1] = "\\"
    THEN IF Len(b) < 2 THEN [s |-> <<>>, ok |-> FALSE]
         ELSE IF b[2] \in {"n", "t", "\\", "\""}
         THEN LET rest == UnquoteBody(From(b, 2))
                  r == CASE b[2] = "n" -> "\n" [] b[2] = "t" -> "\t"
                         [] b[2] = "\\" -> "\\" [] b[2] = "\"" -> "\""
              IN [s |-> <<r>> \o rest.s, ok |-> rest.ok]
         ELSE IF b[2] = "x" /\ Len(b) >= 4 /\ <<b[3], b[4]>> \in {<<"0", "1">>, <<"f", "f">>}
         THEN LET rest == UnquoteBody(From(b, 4))
              IN [s |-> <<IF b[3] = "0" THEN "^A" ELSE "xFF">> \o rest.s, ok |-> rest.ok]
         ELSE [s |-> <<>>, ok |-> FALSE]
    ELSE IF b[1] \in {"\"", "\n"} THEN [s |-> <<>>, ok |-> FALSE]
    ELSE LET rest == UnquoteBody(Tail(b))
         IN [s |-> <<b[1]>> \o rest.s, ok |-> rest.ok]

\* strconv.Unquote: [s, ok], ok for err == nil.
Unquote(v) ==
    IF Len(v) < 2 \/ v[1] # "\"" \/ v[Len(v)] # "\"" THEN [s |-> <<>>, ok |-> FALSE]
    ELSE LET r == UnquoteBody(SubSeq(v, 2, Len(v) - 1))
         IN IF r.ok THEN r ELSE [s |-> <<>>, ok |-> FALSE]

\* Data.GetString: [s, ok]
GetString(d, key) ==
    IF ~d.ok \/ value(d.d, key) = <<>> THEN [s |-> <<>>, ok |-> FALSE]
    ELSE Unquote(value(d.d, key))

\* listen Message.WriteJSON, the loop from pair i on: [b, written]; the
\* value is written as it was read.
RECURSIVE listenJSONPairs(_, _)
listenJSONPairs(data, i) ==
    IF i > Len(data) THEN [b |-> <<>>, written |-> FALSE]
    ELSE LET rest == listenJSONPairs(data, i + 1)
         IN IF skipKey(data, i) THEN rest
            ELSE [b |-> <<", ">> \o appendQuote(data[i].Key) \o <<": ">>
                          \o data[i].Value \o rest.b,
                  written |-> TRUE]

\* listen Message.WriteJSON: the bytes handed to w.Write for the message
\* with the type typ, the content and the raw data.
WriteJSONBytes(typ, content, rawData) ==
    LET data == MessageData(rawData).d
    IN <<"{\"timestamp\": \"", "<time>", "\", \"type\": \"">> \o TrimSuffix(typ)
         \o <<"\", \"content\": ">> \o appendQuote(content)
         \o (IF Len(data) > 0 /\ listenJSONPairs(data, 1).written
             THEN listenJSONPairs(data, 1).b ELSE <<>>)
         \o <<"}\n">>

\* ------------------------------------------------------- listen (scanner)
\* bufio.MaxScanTokenSize (64 * 1024) and the first buffer size of
\* bufio.Scanner (4096), scaled down.
MaxScanTokenSize == 32
startBufSize == 16

NoToken == [advance |-> 0, has |-> FALSE, token |-> <<>>, errs |-> <<>>]

invalidLine(data) == [msg |-> "invalid line", line |-> data]
lineTooLong == [msg |-> "line is way too long", line |-> <<>>]

\* scanSayLines after its loop: no newline ends a line in data.
scanRest(data, discarded, es, atEOF) ==
    IF atEOF
    THEN [NoToken EXCEPT !.advance = discarded + Len(data),
                         !.errs = Append(es, invalidLine(data))]
    ELSE IF Len(data) < typeLen + 1
    THEN [NoToken EXCEPT !.advance = discarded, !.errs = es]
    ELSE IF getType(UpTo(data, typeLen)) = <<>> \/ data[typeLen + 1] # " "
    THEN [NoToken EXCEPT !.advance = discarded + Len(data),
                         !.errs = Append(es, invalidLine(data))]
    ELSE IF Len(data) >= MaxScanTokenSize
    THEN [advance |-> discarded + Len(data), has |-> TRUE, token |-> data,
          errs |-> Append(es, lineTooLong)]
    ELSE [NoToken EXCEPT !.advance = discarded, !.errs = es]

\* scanSayLines, its loop: i is the Go index the search for '\n' starts at.
RECURSIVE scanLoop(_, _, _, _, _)
scanLoop(data, discarded, i, es, atEOF) ==
    LET j == Index(From(data, i), <<"\n">>)
        n == i + j
    IN IF j = -1 THEN scanRest(data, discarded, es, atEOF)
       ELSE IF j < typeLen + 1
       THEN scanLoop(From(data, n + 1), discarded + n + 1, 0,
                     Append(es, invalidLine(UpTo(data, n))), atEOF)
       ELSE IF j > typeLen + 1 /\ data[n] = " "
       THEN scanLoop(data, discarded, n + 1, es, atEOF)
       ELSE [advance |-> discarded + n + 1, has |-> TRUE, token |-> UpTo(data, n),
             errs |-> es]

\* scanSayLines: [advance, has, token, errs: the calls of errorf]
scanSayLines(data, atEOF) ==
    IF atEOF /\ Len(data) = 0 THEN NoToken
    ELSE scanLoop(data, 0, 0, <<>>, atEOF)

\* listener.next, l.s.Scan(): the split function is called on the data the
\* scanner holds (at the end of the input also on no data); without a token
\* the scanner reads more, or Scan returns false at the end of the input.
ListenScan ==
    /\ lpc = "scan" /\ lphase # "InitDone"
    /\ IF Len(sbuf) > 0 \/ serr # "nil"
       THEN LET r == scanSayLines(sbuf, serr # "nil")
            IN /\ errs' = errs \o r.errs
               /\ tok' = r.token
               /\ IF r.has
                  THEN /\ lpc' = "token"
                       /\ sbuf' = From(sbuf, r.advance)
                       /\ sstart' = sstart + r.advance
                  ELSE IF serr # "nil"
                  THEN lpc' = "done" /\ sbuf' = <<>> /\ sstart' = 0
                  ELSE /\ lpc' = "read"
                       /\ sbuf' = From(sbuf, r.advance)
                       /\ sstart' = sstart + r.advance
       ELSE lpc' = "read" /\ UNCHANGED <<errs, tok, sbuf, sstart>>
    /\ UNCHANGED <<vQueue, vPool, vLock, vBuf, vProd, vFlush, vAdmin, vCount, vHist,
                   perr, vMetric, araise, vPure, stream, scap, serr, handled,
                   lphase, lmsg, lret, vLoggers>>

Min(a, b) == IF a < b THEN a ELSE b

\* Scan: the data is moved to the front of the buffer, a full buffer is
\* doubled up to MaxScanTokenSize, and the input is read: some bytes, or the
\* end of the input.
ListenRead ==
    /\ lpc = "read"
    /\ LET moved == sstart > 0 /\ (sstart + Len(sbuf) = scap \/ sstart > scap \div 2)
           start1 == IF moved THEN 0 ELSE sstart
           full == start1 + Len(sbuf) = scap
           cap1 == IF ~full THEN scap
                   ELSE IF scap = 0 THEN startBufSize
                   ELSE Min(2 * scap, MaxScanTokenSize)
           start2 == IF full THEN 0 ELSE start1
       IN IF full /\ scap >= MaxScanTokenSize
          THEN /\ serr' = "ErrTooLong" /\ lpc' = "done"
               /\ sstart' = start1
               /\ UNCHANGED <<sbuf, scap, stream>>
          ELSE /\ scap' = cap1
               /\ sstart' = start2
               /\ lpc' = "scan"
               /\ IF stream = <<>>
                  THEN serr' = "EOF" /\ UNCHANGED <<sbuf, stream>>
                  ELSE /\ \E n \in 1..Min(cap1 - start2 - Len(sbuf), Len(stream)) :
                            /\ sbuf' = sbuf \o UpTo(stream, n)
                            /\ stream' = From(stream, n)
                       /\ UNCHANGED serr
    /\ UNCHANGED <<vQueue, vPool, vLock, vBuf, vProd, vFlush, vAdmin, vCount, vHist,
                   perr, vMetric, araise, vPure, tok, handled, errs,
                   lphase, lmsg, lret, vLoggers>>

\* What getMessage builds from a line.
NewMessage(raw) ==
    LET m == parseMessage(From(raw, typeLen + 1))
    IN [typ |-> getType(raw), content |-> m.content, rawData |-> m.rawData, line |-> raw]

TypeInit == <<"I", "N", "I", "T", " ">>

\* Init: msg, err = in.next(), a token: getMessage(l.s.Bytes()); with a
\* message Init returns it if its type is TypeInit, and nil otherwise.
InitToken ==
    /\ lpc = "token" /\ lphase = "Init"
    /\ IF getType(tok) = <<>>
       THEN /\ errs' = Append(errs, invalidLine(tok))
            /\ lpc' = "scan"
            /\ UNCHANGED <<lphase, lmsg, lret>>
       ELSE /\ IF parseMessage(From(tok, typeLen + 1)).panic
               THEN lpc' = "panic" /\ UNCHANGED <<lphase, lmsg, lret>>
               ELSE /\ lmsg' = NewMessage(tok)
                    /\ lret' = IF getType(tok) = TypeInit THEN NewMessage(tok) ELSE NoMessage
                    /\ lphase' = "InitDone"
                    /\ lpc' = "scan"
            /\ UNCHANGED errs
    /\ UNCHANGED <<vQueue, vPool, vLock, vBuf, vProd, vFlush, vAdmin, vCount, vHist,
                   perr, vMetric, araise, vPure, stream, sbuf, sstart, scap, serr, tok,
                   handled, vLoggers>>

\* Init: in.next() when Scan returns false: msg is nil and err is l.s.Err(),
\* nil at the end of the input; Init returns nil on an error, and evaluates
\* msg.Type(), that is m.typ of a nil *Message, when there is none.
InitEnd ==
    /\ lpc = "done" /\ lphase = "Init"
    /\ lmsg' = NoMessage
    /\ IF serr \notin {"nil", "EOF"}
       THEN lret' = NoMessage /\ lphase' = "InitDone" /\ UNCHANGED lpc
       ELSE lpc' = "panic" /\ UNCHANGED <<lret, lphase>>
    /\ UNCHANGED <<vQueue, vPool, vLock, vBuf, vProd, vFlush, vAdmin, vCount, vHist,
                   perr, vMetric, araise, vPure, stream, sbuf, sstart, scap, serr, tok,
                   handled, errs, vLoggers>>

\* Listen, before its loop: if msg != nil && msg.Type() != TypeInit { handler(msg) }
ListenFirst ==
    /\ lphase = "InitDone"
    /\ lphase' = "Listen"
    /\ handled' = IF lmsg # NoMessage /\ lmsg.typ # TypeInit THEN Append(handled, lmsg)
                  ELSE handled
    /\ UNCHANGED <<vQueue, vPool, vLock, vBuf, vProd, vFlush, vAdmin, vCount, vHist,
                   perr, vMetric, araise, vPure, stream, sbuf, sstart, scap, serr, tok,
                   lpc, errs, lmsg, lret, vLoggers>>

\* listener.next: getMessage(l.s.Bytes()); Listen: handler(msg)
ListenToken ==
    /\ lpc = "token" /\ lphase = "Listen"
    /\ IF getType(tok) = <<>>
       THEN /\ errs' = Append(errs, invalidLine(tok))
            /\ lpc' = "scan"
            /\ UNCHANGED handled
       ELSE LET m == parseMessage(From(tok, typeLen + 1))
            IN /\ lpc' = IF m.panic THEN "panic" ELSE "scan"
               /\ handled' = IF m.panic THEN handled
                             ELSE Append(handled, [typ |-> getType(tok),
                                                   content |-> m.content,
                                                   rawData |-> m.rawData,
                                                   line |-> tok])
               /\ UNCHANGED errs
    /\ lmsg' = IF getType(tok) = <<>> \/ parseMessage(From(tok, typeLen + 1)).panic
               THEN lmsg ELSE NewMessage(tok)
    /\ UNCHANGED <<vQueue, vPool, vLock, vBuf, vProd, vFlush, vAdmin, vCount, vHist,
                   perr, vMetric, araise, vPure, stream, sbuf, sstart, scap, serr, tok,
                   lphase, lret, vLoggers>>

\* The inputs of Listen.  Lines as another program may write them: a record,
\* a record that ends with a space, a short line, a line without type, one
\* that ends with a space, and a type that no space follows.
InputLines ==
    {<<"I", "N", "F", "O", " ", " ", "a">>,
     <<"I", "N", "F", "O", " ", " ", "a", " ">>,
     <<"f", "o", "o">>,
     <<"f", "o", " ", "b", "a", "r", "a">>,
     <<"f", "o", " ", "b", "a", "r", " ">>,
     <<"D", "E", "B", "U", "G", "x", "a">>}

MaxLines == 3
MaxContentLen == 3
ContentBytes == {"a", " ", "\n"}

RECURSIVE Join(_)
Join(lines) ==
    IF lines = <<>> THEN <<>> ELSE Head(lines) \o <<"\n">> \o Join(Tail(lines))

\* A line of n bytes that begins like a record.
RECURSIVE LongLine(_)
LongLine(n) ==
    IF n <= typeLen + 1 THEN <<"I", "N", "F", "O", " ", " ">>
    ELSE Append(LongLine(n - 1), "x")

\* What Listen is given: the line(s) printMessage writes for an INFO message
\* with a content, lines of another program, or a line of MaxScanTokenSize
\* bytes or more followed by a record.
Inputs ==
    {[kind |-> "content", c |-> c, lines |-> <<>>] :
        c \in StringsUpTo(ContentBytes, MaxContentLen)}
    \cup {[kind |-> "lines", c |-> <<>>, lines |-> l] :
             l \in StringsUpTo(InputLines, MaxLines) \ {<<>>}}
    \cup {[kind |-> "long", c |-> <<>>,
            lines |-> <<LongLine(MaxScanTokenSize + n), <<"I", "N", "F", "O", " ", " ", "a">>>>] :
             n \in 0..2}

InputBytes(a) ==
    IF a.kind = "content"
    THEN printBytes([Type |-> "INFO ", Content |-> a.c, Data |-> <<>>])
    ELSE Join(a.lines)

\* ------------------------------------------------------------------ calls
\* The values of the pairs of the encoded messages: an integer, a string of
\* up to MaxValueLen runes, a Hook that yields nil and one that yields 1.
MaxValueLen == 2
ValueRunes == {"a", " ", "\"", "\\", "\n", "^A", "U+00E9", "xFF"}

Values ==
    {IntArg(1), HookArg(NoValue), HookArg(IntArg(1))}
        \cup {StrArg(s) : s \in StringsUpTo(ValueRunes, MaxValueLen)}

\* The encoded messages: with no pair, with the pair k, with the pairs k, j.
Messages ==
    LET datas == {<<>>} \cup {<<[Key |-> <<"k">>, Value |-> v]>> : v \in Values}
                   \cup {<<[Key |-> <<"k">>, Value |-> v], [Key |-> <<"j">>, Value |-> w]>> :
                            v \in Values, w \in {IntArg(1), HookArg(NoValue)}}
    IN {[Type |-> "INFO ", Content |-> c, Data |-> d] : c \in {<<>>, <<"a">>}, d \in datas}

NoResult == [f |-> "", out |-> <<>>, ok |-> FALSE]

\* printMessage(msg)
CallPrintMessage ==
    /\ ret = NoResult
    /\ ret' = [f |-> "printMessage", out |-> printBytes(arg), ok |-> TRUE]
    /\ UNCHANGED <<vQueue, vPool, vLock, vBuf, vProd, vFlush, vAdmin, vCount, vHist,
                   perr, vMetric, araise, arg, vListen, vLoggers>>

\* msg.WriteTo(w)
CallWriteTo ==
    /\ ret = NoResult
    /\ ret' = [f |-> "WriteTo", out |-> WriteToBytes(arg), ok |-> TRUE]
    /\ UNCHANGED <<vQueue, vPool, vLock, vBuf, vProd, vFlush, vAdmin, vCount, vHist,
                   perr, vMetric, araise, arg, vListen, vLoggers>>

\* The message is printed; the listener reads the line, builds the message
\* (getMessage) and calls m.Data().GetString("k").
CallGetString ==
    /\ ret = NoResult
    /\ LET line == UpTo(printBytes(arg), Len(printBytes(arg)) - 1)
           m == parseMessage(From(line, typeLen + 1))
           r == GetString(MessageData(m.rawData), <<"k">>)
       IN ret' = [f |-> "GetString", out |-> r.s, ok |-> r.ok]
    /\ UNCHANGED <<vQueue, vPool, vLock, vBuf, vProd, vFlush, vAdmin, vCount, vHist,
                   perr, vMetric, araise, arg, vListen, vLoggers>>

\* msg.WriteJSONTo(w)
CallWriteJSONTo ==
    /\ ret = NoResult
    /\ ret' = [f |-> "WriteJSONTo", out |-> WriteJSONToBytes(arg), ok |-> TRUE]
    /\ UNCHANGED <<vQueue, vPool, vLock, vBuf, vProd, vFlush, vAdmin, vCount, vHist,
                   perr, vMetric, araise, arg, vListen, vLoggers>>

\* The raw data segments given to Message.Data: up to MaxRawLen bytes.
MaxRawLen == 5
RawBytes == {"k", "=", "1", "\"", " "}
RawDatas == StringsUpTo(RawBytes, MaxRawLen)

\* m.Data() of a message of the listener with the raw data arg
CallData ==
    /\ ret = NoResult
    /\ LET r == MessageData(arg)
       IN ret' = [f |-> "Data", out |-> r.d, ok |-> r.ok, errs |-> r.errs]
    /\ UNCHANGED <<vQueue, vPool, vLock, vBuf, vProd, vFlush, vAdmin, vCount, vHist,
                   perr, vMetric, araise, arg, vListen, vLoggers>>

\* The messages encoded as JSON: up to MaxPairs pairs whose keys are k or
\* one of the reserved keys.
MaxPairs == 3
JSONKeys == {<<"k">>} \cup ReservedKeys
JSONValues == {IntArg(1), IntArg(2)}

JSONMessages ==
    {[Type |-> "INFO ", Content |-> <<"a">>, Data |-> d] :
        d \in StringsUpTo({[Key |-> k, Value |-> v] : k \in JSONKeys, v \in JSONValues},
                          MaxPairs)}

\* The message is printed; the listener reads the line, builds the message
\* (getMessage) and calls m.WriteJSON(w).
CallWriteJSON ==
    /\ ret = NoResult
    /\ LET line == UpTo(printBytes(arg), Len(printBytes(arg)) - 1)
           m == parseMessage(From(line, typeLen + 1))
       IN ret' = [f |-> "WriteJSON",
                  out |-> WriteJSONBytes(getType(line), m.content, m.rawData),
                  ok |-> TRUE]
    /\ UNCHANGED <<vQueue, vPool, vLock, vBuf, vProd, vFlush, vAdmin, vCount, vHist,
                   perr, vMetric, araise, arg, vListen, vLoggers>>

\* The keys Data.Get is called with.
GetKeys == {<<"k">>, <<"j">>, <<>>}

\* msg.Data.Get(key) on the data of a record that was printed.
CallGet ==
    /\ ret = NoResult
    /\ \E i \in 1..Len(printed), key \in GetKeys :
          ret' = [f |-> "Get", d |-> printed[i].data, key |-> key,
                  out |-> DataGet(printed[i].data, key).value,
                  ok |-> DataGet(printed[i].data, key).ok]
    /\ UNCHANGED <<vQueue, vPool, vLock, vBuf, vProd, vFlush, vAdmin, vCount, vHist,
                   perr, vMetric, araise, arg, vListen, vLoggers>>

\* strings.LastIndex(s, sep): the Go index of the last occurrence, or -1.
LastIndex(s, sep) ==
    LET at == {i \in 0..(Len(s) - Len(sep)) : SubSeq(s, i + 1, i + Len(sep)) = sep}
    IN IF at = {} THEN -1 ELSE CHOOSE i \in at : \A j \in at : j <= i

\* Message.Error
MessageError(typ, content) ==
    IF typ \notin {"ERROR", "FATAL"} THEN <<>>
    ELSE LET i == LastIndex(content, <<"\n", "\n">>)
         IN IF i = -1 THEN content ELSE UpTo(content, i)

\* Message.StackTrace
MessageStackTrace(content) ==
    LET i == LastIndex(content, <<"\n", "\n">>)
    IN IF i = -1 THEN <<>> ELSE From(content, i + 2)

\* Logger.error: the content of the message, the text of v and, when
\* l.skipStackFrames >= 0, "\n\n" and the stack trace.
errorContent(text, skipStackFrames, st) ==
    IF skipStackFrames >= 0 THEN text \o <<"\n", "\n">> \o st ELSE text

\* The calls of Error and Fatal: the text is a string of up to MaxTextLen
\* bytes, the logger prints stack traces (0) or not (-1), and the stack trace
\* getStackTrace returns has one line or two and no newline at its end.
MaxTextLen == 4
TextBytes == {"a", "\n"}
StackTraces == {<<"f">>, <<"f", "\n", "g">>}

ErrorCalls ==
    {[typ |-> t, text |-> x, skip |-> k, st |-> s] :
        t \in {"ERROR", "FATAL"}, x \in StringsUpTo(TextBytes, MaxTextLen),
        k \in {-1, 0}, s \in StackTraces}

\* l.Error(text) or l.Fatal(text); the message it sends is asked for
\* m.Error() and m.StackTrace().
CallError ==
    /\ ret = NoResult
    /\ LET content == errorContent(arg.text, arg.skip, arg.st)
       IN ret' = [f |-> "Error", out |-> MessageError(arg.typ, content),
                  st |-> MessageStackTrace(content), ok |-> TRUE]
    /\ UNCHANGED <<vQueue, vPool, vLock, vBuf, vProd, vFlush, vAdmin, vCount, vHist,
                   perr, vMetric, araise, arg, vListen, vLoggers>>

\* ------------------------------------------------------------------- Next
SendSteps(p) ==
    \/ SendGet(p) \/ SendRLock(p) \/ SendRUnlock(p)
    \/ SendCheck(p) \/ SendEnq(p)
    \/ PrintRLock(p) \/ PrintWrite(p) \/ PrintRUnlock(p) \/ SendPut(p)

ErrorSteps(p) == ErrorGetBuffer(p) \/ ErrorLock(p) \/ ErrorUnlockSend(p)

FlushSteps(f) == FlushCall(f) \/ FlushSend(f) \/ FlushWake(f) \/ FlushReturn(f)

ConsSteps(c) == ConsRecv(c) \/ ConsWake(c) \/ ConsCall(c) \/ ConsPut(c)

SetListenerSteps(a) ==
    \/ SetListenerCase1(a) \/ SetListenerCase2(a) \/ SetListenerCase3(a)
    \/ StartSetListener(a) \/ StartMakeChan(a) \/ StartGo(a)
    \/ StopClose(a) \/ StopClearListener(a) \/ ReplaceListener(a)
    \/ \E c \in DOMAIN cons : StopWaitClosed(a, c)

AdminSteps(a) ==
    \/ RedirectLock(a) \/ RedirectSwap(a) \/ AdminUnlock(a) \/ SetDebug(a)
    \/ SetDataLock(a) \/ SetDataApply(a) \/ SetDataUnlockPanic(a)
    \/ AddDataLock(a) \/ AddDataAppend(a)

\* The delivery queue: logging calls, Flush, SetListener and the consumer.
NextQueue ==
    \/ \E p \in Producers : SendSteps(p) \/ SendWake(p)
    \/ \E f \in Flushers : FlushSteps(f)
    \/ \E c \in DOMAIN cons : ConsSteps(c) \/ \E f \in Flushers : ConsSignalFlush(c, f)
    \/ \E a \in Admins : SetListenerSteps(a)

\* Callers that race: two of SetListener, one of Flush, one logging.
Init ==
    InitVars({"p1", "f1", "a1", "a2"},
             [data |-> {NoData}, outcomes |-> {"ok"}, orderly |-> FALSE,
              setdata |-> {OnePair, OddData}])

Spec == Init /\ [][NextQueue]_vars

\* One caller of SetListener and one caller of Flush, racing with the producers.
InitSeq ==
    InitVars(Producers \cup {"f1", "a1"},
             [data |-> {NoData}, outcomes |-> {"ok"}, orderly |-> FALSE,
              setdata |-> {OnePair, OddData}])

SpecSeq == InitSeq /\ [][NextQueue]_vars

\* The package lock: logging calls with and without a listener, invalid
\* call-site data, failing writes, and the administrative calls.  With one
\* logging caller the channel never fills, so no producer is woken.
NextLock ==
    \/ \E p \in Producers : SendSteps(p) \/ ErrorSteps(p)
    \/ \E c \in DOMAIN cons : ConsSteps(c)
    \/ \E a \in Admins : SetListenerSteps(a) \/ AdminSteps(a)

InitLock ==
    InitVars({"p1", "a1", "a2"},
             [data |-> {NoData, OddData}, outcomes |-> WriteOutcomes,
              orderly |-> FALSE, setdata |-> {OnePair, OddData}])

SpecLock == InitLock /\ [][NextLock]_vars

\* send without a listener, from its read of the logger's data on.
PrintSteps(p) ==
    \/ SendRLock(p) \/ SendRUnlock(p) \/ SendCheck(p)
    \/ PrintRLock(p) \/ PrintWrite(p) \/ PrintRUnlock(p) \/ SendPut(p)

\* Metric calls without a listener, with valid and invalid names and call-site
\* data.
NextMetric == \E p \in Producers : MetricSteps(p) \/ PrintSteps(p) \/ ErrorSteps(p)

InitMetric ==
    InitVars({"p1"},
             [data |-> {NoData, OnePair, OddData}, outcomes |-> {"ok"},
              orderly |-> FALSE, setdata |-> {}])

SpecMetric == InitMetric /\ [][NextMetric]_vars

\* Logging calls without a listener, with valid and invalid call-site data,
\* and calls of SetData and AddData.
NextData ==
    \/ \E p \in Producers : SendGet(p) \/ PrintSteps(p) \/ ErrorSteps(p)
    \/ \E a \in Admins :
        \/ SetDataLock(a) \/ SetDataApply(a) \/ SetDataUnlockPanic(a)
        \/ AddDataLock(a) \/ AddDataAppend(a) \/ AdminUnlock(a)

InitData ==
    InitVars({"p1", "a1"},
             [data |-> {NoData, OnePair, OddData}, outcomes |-> {"ok"},
              orderly |-> FALSE, setdata |-> DataLists])

SpecData == InitData /\ [][NextData]_vars

\* Logging calls with valid call-site data and none, SetData and AddData on
\* the logger, and Data.Get on the data of a record.
TwoPairs == <<StrArg(<<"k">>), IntArg(3), StrArg(<<"k">>), IntArg(4)>>
SetPairs == <<StrArg(<<"j">>), IntArg(5), StrArg(<<"k">>), IntArg(6)>>

NextRecord ==
    \/ \E p \in Producers : SendGet(p) \/ PrintSteps(p)
    \/ \E a \in Admins :
        \/ SetDataLock(a) \/ SetDataApply(a)
        \/ AddDataLock(a) \/ AddDataAppend(a) \/ AdminUnlock(a)
    \/ CallGet

InitRecord ==
    /\ InitSay({"p1", "a1"},
               [data |-> {NoData, OnePair, TwoPairs}, outcomes |-> {"ok"},
                orderly |-> FALSE, setdata |-> {OnePair, SetPairs}])
    /\ arg = Nil
    /\ ret = NoResult
    /\ InitNoListen

SpecRecord == InitRecord /\ [][NextRecord]_vars

\* One message is encoded by one of the encoders.
NextEncode == CallPrintMessage \/ CallWriteTo \/ CallWriteJSONTo \/ CallGetString

InitEncode ==
    /\ InitSay({}, [data |-> {}, outcomes |-> {}, orderly |-> TRUE, setdata |-> {}])
    /\ arg \in Messages
    /\ ret = NoResult
    /\ InitNoListen

SpecEncode == InitEncode /\ [][NextEncode]_vars

\* Message.Data is called on one raw data segment.
NextParse == CallData

InitParse ==
    /\ InitSay({}, [data |-> {}, outcomes |-> {}, orderly |-> TRUE, setdata |-> {}])
    /\ arg \in RawDatas
    /\ ret = NoResult
    /\ InitNoListen

SpecParse == InitParse /\ [][NextParse]_vars

\* A Logger is made, loggers are made from it and from each other, and
\* SetData and AddData are called on them, one call after the other.
NextLoggers ==
    \/ LoggerNew
    \/ \E l \in 1..MaxLoggers : LoggerNewLogger(l) \/ LoggerSetData(l) \/ LoggerAddData(l)

InitLoggers == InitVars({}, [data |-> {}, outcomes |-> {}, orderly |-> TRUE, setdata |-> {}])

SpecLoggers == InitLoggers /\ [][NextLoggers]_vars

\* One call of Error or Fatal.
NextError == CallError

InitError ==
    /\ InitSay({}, [data |-> {}, outcomes |-> {}, orderly |-> TRUE, setdata |-> {}])
    /\ arg \in ErrorCalls
    /\ ret = NoResult
    /\ InitNoListen

SpecError == InitError /\ [][NextError]_vars

\* One message is encoded as JSON, by the program or by its listener.
NextJSON == CallWriteJSONTo \/ CallWriteJSON

InitJSON ==
    /\ InitSay({}, [data |-> {}, outcomes |-> {}, orderly |-> TRUE, setdata |-> {}])
    /\ arg \in JSONMessages
    /\ ret = NoResult
    /\ InitNoListen

SpecJSON == InitJSON /\ [][NextJSON]_vars

\* Listen reads an input to its end.
NextListen == ListenScan \/ ListenRead \/ ListenToken

InitListen ==
    /\ InitSay({}, [data |-> {}, outcomes |-> {}, orderly |-> TRUE, setdata |-> {}])
    /\ arg \in Inputs
    /\ ret = NoResult
    /\ stream = InputBytes(arg)
    /\ sbuf = <<>> /\ sstart = 0 /\ scap = 0 /\ serr = "nil"
    /\ lpc = "scan" /\ tok = <<>> /\ handled = <<>> /\ errs = <<>>
    /\ lphase = "Listen" /\ lmsg = NoMessage /\ lret = NoMessage

SpecListen == InitListen /\ [][NextListen]_vars

\* Init is called once and then Listen, on an input of up to MaxLines lines:
\* an INIT record, two other records, a short line and a line without type
\* that ends with a space.
InitLines ==
    {<<"I", "N", "I", "T", " ", " ", "a">>,
     <<"I", "N", "F", "O", " ", " ", "a">>,
     <<"I", "N", "F", "O", " ", " ", "b">>,
     <<"f", "o", "o">>,
     <<"f", "o", " ", "b", "a", "r", " ">>}

NextInit == ListenScan \/ ListenRead \/ InitToken \/ InitEnd \/ ListenFirst \/ ListenToken

InitInit ==
    /\ InitSay({}, [data |-> {}, outcomes |-> {}, orderly |-> TRUE, setdata |-> {}])
    /\ arg \in {[kind |-> "lines", c |-> <<>>, lines |-> l] :
                   l \in StringsUpTo(InitLines, MaxLines)}
    /\ ret = NoResult
    /\ stream = InputBytes(arg)
    /\ sbuf = <<>> /\ sstart = 0 /\ scap = 0 /\ serr = "nil"
    /\ lpc = "scan" /\ tok = <<>> /\ handled = <<>> /\ errs = <<>>
    /\ lphase = "Init" /\ lmsg = NoMessage /\ lret = NoMessage

SpecInit == InitInit /\ [][NextInit]_vars

\* Orderly callers: SetListener is called only while no logging call and no
\* Flush is under way, and the other way round.  The consumer goroutine, the
\* callers inside send or Flush and the listener are scheduled fairly.
Orderly == [data |-> {NoData}, outcomes |-> {"ok"}, orderly |-> TRUE,
            setdata |-> {OnePair, OddData}]

Fairness ==
    /\ \A p \in Producers : WF_vars(SendSteps(p) \/ SendWake(p))
    /\ \A f \in Flushers : WF_vars(FlushSend(f) \/ FlushWake(f) \/ FlushReturn(f))
    /\ WF_vars(\E c \in DOMAIN cons : ConsSteps(c) \/ \E f \in Flushers : ConsSignalFlush(c, f))
    /\ \A a \in Admins : WF_vars(SetListenerSteps(a))

InitFair == InitVars(Producers \cup {"f1", "a1"}, Orderly)

SpecFair == InitFair /\ [][NextQueue]_vars /\ Fairness

\* Orderly callers, two of them calling Flush.
InitFlush == InitVars({"p1", "f1", "f2", "a1"}, Orderly)

SpecFlush == InitFlush /\ [][NextQueue]_vars

\* ================================================================= properties
\* The contents the listener was invoked with, in order.
DeliveredContents == [i \in 1..Len(delivered) |-> delivered[i].n]

\* s is a prefix of t.
IsPrefix(s, t) == Len(s) <= Len(t) /\ \A i \in 1..Len(s) : s[i] = t[i]

\* The messages (not the sentinels) pending in channel k.
Pending(k) == SelectSeq(chans[k].buf, LAMBDA x : x # Nil)

\* The number of messages pending in the channels 1..k.
RECURSIVE PendingUpTo(_)
PendingUpTo(k) == IF k = 0 THEN 0 ELSE Len(Pending(k)) + PendingUpTo(k - 1)

\* The consumers that hold a message they have not yet passed to the listener.
Handling == {c \in DOMAIN cons : cons[c].pc = "handle"}

\* The consumers inside the listener.
InListener == {c \in DOMAIN cons : cons[c].pc = "inlistener"}

\* C1: when Flush returns after it found a listener, the messages whose
\* enqueue completed before Flush was called have all been passed to the
\* listener, in enqueue order, and the listener has returned from each.
C1_FlushBarrier ==
    \A f \in Flushers :
        fpc[f] = "flushed" =>
            /\ Len(delivered) >= fcall[f]
            /\ \A i \in 1..fcall[f] : delivered[i].n = enq[i]
            /\ \A c \in InListener : cons[c].cur > fcall[f]

\* Flush returns after two messages of two producers were enqueued before it
\* was called.
C1_Witness ==
    /\ fpc["f1"] = "flushed" /\ fcall["f1"] = 2
    /\ msgs[1].content # msgs[2].content

\* C2: the listener is invoked with the enqueued messages in the order their
\* enqueues completed, each once and none skipped (every enqueued message is
\* pending, in the consumer's hands or delivered), one invocation at a time.
C2_FifoExactlyOnce ==
    /\ IsPrefix(DeliveredContents, enq)
    /\ Len(enq) = Len(delivered) + PendingUpTo(Len(chans)) + Cardinality(Handling)
    /\ Cardinality(InListener) <= 1

\* Two messages were enqueued in the reverse of the order of their calls and
\* both were delivered.
C2_Witness == enq = <<2, 1>> /\ Len(delivered) = 2

\* C3 (state): once the consumer has signalled closed, and as long as no
\* listener is set, every enqueued message has been passed to the listener,
\* no channel holds anything and every consumer goroutine has exited.
C3_Drained ==
    (listener = Nil \/ \E a \in Admins : apc[a] = "clear") =>
        /\ \A c \in DOMAIN cons : cons[c].pc = "exited"
        /\ \A k \in DOMAIN chans : chans[k].buf = <<>>
        /\ Len(delivered) = Len(enq)

\* C3 (step): the listener is not invoked while no listener is set.
C3_NoDispatch == listener = Nil => delivered' = delivered

\* C3: SetListener(nil) returns after the queue was drained into the listener
\* and the consumer has exited, and the listener is not invoked again until
\* SetListener is called with a function.
C3_Teardown == []C3_Drained /\ [][C3_NoDispatch]_vars

\* SetListener(nil) is about to return; messages were pending at close(ch).
C3_Witness ==
    /\ apc["a1"] = "clear" /\ atclose >= 1
    /\ Len(delivered) = Len(enq)

\* The consumer goroutines that are alive.
Alive == {c \in DOMAIN cons : cons[c].pc \notin {"exited", "panic"}}

\* The channels that were made and not closed.
Open == {k \in DOMAIN chans : ~chans[k].closed}

\* A channel send on ch is in order: ch is a channel, it is not closed, and a
\* consumer goroutine is running.
SendInOrder == ch # Nil /\ ~chans[ch].closed /\ Alive # {}

\* C4: every channel send that send or Flush executes (ch <- msg, ch <- nil)
\* is on a channel that is not nil, not closed and has a running consumer,
\* and no caller parked on the channel sees it closed.
C4_NoSendAfterClose ==
    /\ \A p \in Producers :
        /\ ppc[p] = "enq" /\ ppc'[p] # "enq" => SendInOrder
        /\ ppc'[p] # "sendpanic"
    /\ \A f \in Flushers :
        /\ fpc[f] = "send" /\ fpc'[f] # "send" => SendInOrder
        /\ fpc'[f] # "sendpanic"

C4_SendsInOrder == [][C4_NoSendAfterClose]_vars

\* C5: when a call of Flush returns after it found a listener, the messages
\* enqueued before that call's sentinel have all been passed to the listener.
C5_BarrierPerCaller ==
    \A f \in Flushers :
        fpc[f] = "flushed" =>
            /\ Len(delivered) >= fmark[f]
            /\ \A i \in 1..fmark[f] : delivered[i].n = enq[i]

\* C6: at most one consumer goroutine is alive and at most one channel is in
\* use.
C6_OneConsumer == Cardinality(Alive) <= 1 /\ Cardinality(Open) <= 1

\* C7 (state): no channel holds more than its capacity.
C7_Bounded == \A k \in DOMAIN chans : Len(chans[k].buf) <= ChanCap

\* C7 (step): a producer that reaches ch <- msg on a full channel parks and
\* nothing is enqueued; a parked producer keeps its message, which is not in
\* the pool, until the channel has room, and then the message is appended at
\* the tail of the channel.
C7_ParkedStep ==
    \A p \in Producers :
        /\ (ppc[p] = "enq" /\ ppc'[p] # "enq" /\ ch # Nil
              /\ Len(chans[ch].buf) = ChanCap)
            => ppc'[p] = "parked" /\ chans' = chans /\ enq' = enq
                 /\ pmsg'[p] = pmsg[p]
        /\ ppc[p] = "parked" =>
            \/ ppc'[p] = "parked" /\ pmsg'[p] = pmsg[p] /\ Top(p) \notin msgPool'
            \/ /\ ppc'[p] = "idle"
               /\ Len(chans[pch[p]].buf) < ChanCap
               /\ chans'[pch[p]].buf = Append(chans[pch[p]].buf, Top(p))
               /\ enq' = Append(enq, msgs[Top(p)].content)

Slots ==
    {sl \in (DOMAIN chans) \X (1..ChanCap) : sl[2] <= Len(chans[sl[1]].buf)}

\* The sentinels that are in a channel or in the hands of a consumer.
Sentinels ==
    Cardinality({c \in DOMAIN cons : cons[c].pc = "sigflush"})
    + Cardinality({sl \in Slots : chans[sl[1]].buf[sl[2]] = Nil})

\* C8 (step): Flush called while no listener is set enqueues nothing and goes
\* straight to its return.
C8_NoopStep ==
    \A f \in Flushers :
        (fpc[f] = "idle" /\ fpc'[f] # "idle" /\ listener = Nil)
            => fpc'[f] = "noop" /\ chans' = chans

\* C8 (state): when Flush has passed <-waitFlush, its sentinel is no longer in
\* the channel nor in the hands of the consumer.
C8_SentinelDequeued ==
    \A f \in Flushers : fpc[f] \in {"flushed", "noop"} => Sentinels = 0

C9_Locked ==
    (out' # out \/ debug' # debug \/ listener' # listener \/ ch' # ch
        \/ ldata' # ldata)
        => mu.w \in Admins

\* C9: every administrative mutation of the shared state is made under the
\* exclusive lock.
C9_MutationsUnderLock == [][C9_Locked]_vars

\* The messages in the frames of the calls of send.
RECURSIVE InFrames(_)
InFrames(ps) ==
    IF ps = {} THEN {}
    ELSE LET p == CHOOSE q \in ps : TRUE IN
         {pmsg[p][i] : i \in DOMAIN pmsg[p]} \cup InFrames(ps \ {p})

\* The number of frames of the calls of send.
RECURSIVE Frames(_)
Frames(ps) ==
    IF ps = {} THEN 0
    ELSE LET p == CHOOSE q \in ps : TRUE IN Len(pmsg[p]) + Frames(ps \ {p})

\* The messages in the channels.
InQueue == {chans[sl[1]].buf[sl[2]] : sl \in Slots} \ {Nil}

\* The consumers that hold a message.
Holding == {c \in DOMAIN cons : cons[c].msg # Nil}

\* The messages that a caller of send, a channel or a consumer holds.
Held == InFrames(Producers) \cup InQueue \cup {cons[c].msg : c \in Holding}

\* C10 (state): a message that is held is not in the pool, no message is held
\* twice, and a buffer that a caller holds is not in the pool and is held by
\* that caller only.
C10_Exclusive ==
    /\ Held \cap msgPool = {}
    /\ Cardinality(Held)
         = Frames(Producers) + PendingUpTo(Len(chans)) + Cardinality(Holding)
    /\ \A p \in Producers : pbuf[p] # Nil =>
        /\ pbuf[p] \notin bufPool
        /\ \A q \in Producers \ {p} : pbuf[q] # pbuf[p]

\* C10 (step): a message enters the pool from the caller of send that has
\* printed it, or from the consumer whose listener has returned from it.
C10_PutStep ==
    \A m \in msgPool' \ msgPool :
        \/ \E p \in Producers :
            /\ ppc[p] = "put" /\ Top(p) = m
            /\ \E i \in 1..Len(printed) : printed[i].n = msgs[m].content
        \/ \E c \in DOMAIN cons :
            /\ cons[c].pc = "inlistener" /\ cons[c].msg = m
            /\ delivered[cons[c].cur].n = msgs[m].content

C11_ReplaceStep ==
    \A a \in Admins :
        (apc[a] = "replace" /\ apc'[a] # "replace") =>
            /\ listener' = aarg[a]
            /\ ch' = ch /\ chans' = chans /\ cons' = cons
            /\ enq' = enq /\ delivered' = delivered

\* C11 (step): a message is handled by the listener that is current when the
\* consumer calls it.
C11_CurrentListener ==
    delivered' # delivered =>
        /\ Len(delivered') = Len(delivered) + 1
        /\ listener # Nil
        /\ delivered'[Len(delivered')].lis = listener

\* C11 (step): listener changes only in an assignment of SetListener.
C11_Stable ==
    listener' # listener =>
        \E a \in Admins : apc[a] \in {"start", "clear", "replace"} /\ apc'[a] # apc[a]

C12_NameError(name) ==
    IF name = <<>> THEN "errKeyEmpty"
    ELSE IF \E i \in 1..Len(name) : name[i] \in {"\t", ":", "=", "\n"}
         THEN "errKeyInvalid"
    ELSE "nil"

C12_Calls(e) == Cardinality({i \in 1..Len(mcalls) : C12_NameError(mcalls[i].name) = e})

C12_Errors(e) ==
    Cardinality({i \in 1..Len(printed) : printed[i].typ = "ERROR" /\ printed[i].text = e})

C12_Metrics ==
    Cardinality({i \in 1..Len(printed) : printed[i].typ \in {"EVENT", "VALUE", "GAUGE"}})

\* C12 (state): when every call has returned, there is one ERROR record with
\* the empty-key text for each metric call made with an empty name, one with
\* the invalid-key text for each call made with a name that holds a tab, a
\* colon, an equals sign or a newline, and the metric records are those of the
\* calls with a valid name.
C12_OneErrorEach ==
    (\A p \in Producers : ppc[p] = "idle") =>
        /\ C12_Errors("errKeyEmpty") = C12_Calls("errKeyEmpty")
        /\ C12_Errors("errKeyInvalid") = C12_Calls("errKeyInvalid")
        /\ C12_Metrics = C12_Calls("nil")

\* C12 (step): a metric call with a rejected name takes no message and goes
\* to Logger.error with the error of its name.
C12_RejectStep ==
    \A p \in Producers :
        (Len(mcalls') > Len(mcalls) /\ ppc[p] = "idle" /\ ppc'[p] # "idle"
           /\ C12_NameError(mcalls'[Len(mcalls')].name) # "nil")
        => /\ ppc'[p] = "errbuf"
           /\ perr'[p] = C12_NameError(mcalls'[Len(mcalls')].name)
           /\ msgs' = msgs /\ pmsg' = pmsg

\* C12: Event, Events, Value, Gauge and Timing.Say reject a name with a tab,
\* colon, equals sign or newline with the invalid-key error and an empty name
\* with the empty-key error; a rejected call emits exactly one ERROR record
\* with that error and no EVENT, VALUE or GAUGE record.
C12_MetricNames == []C12_OneErrorEach /\ [][C12_RejectStep]_vars

\* Two metric calls were rejected, one for an empty name and one for a
\* reserved character, and both have returned.
C12_Witness ==
    /\ \A p \in Producers : ppc[p] = "idle"
    /\ Len(mcalls) = 2 /\ Len(printed) = 2
    /\ printed[1].typ = "ERROR" /\ printed[1].text = "errKeyEmpty"
    /\ printed[2].typ = "ERROR" /\ printed[2].text = "errKeyInvalid"
    /\ mcalls[1].kind = "Gauge" /\ mcalls[2].kind = "Say"

\* The pairs of an argument list whose key is not a string, is empty or holds
\* a reserved character.
C13_BadPairs(data) ==
    {i \in 1..(Len(data) \div 2) :
        \/ data[2 * i - 1].t # "string"
        \/ data[2 * i - 1].v = <<>>
        \/ \E j \in 1..Len(data[2 * i - 1].v) :
              data[2 * i - 1].v[j] \in {"\t", ":", "=", "\n"}}

\* The error the specification gives for an argument list of SetData.
C13_Expected(data) ==
    IF Len(data) % 2 = 1 THEN "errOddNumArgs"
    ELSE IF C13_BadPairs(data) = {} THEN "nil"
    ELSE LET i == CHOOSE b \in C13_BadPairs(data) : \A c \in C13_BadPairs(data) : b <= c
             k == data[2 * i - 1]
         IN IF k.t # "string" THEN "errKeyNotString"
            ELSE IF k.v = <<>> THEN "errKeyEmpty"
            ELSE "errKeyInvalid"

\* C13 (step): SetData fails exactly for the lists the specification names;
\* after a list of odd length the logger has no data; the error raised to the
\* caller is the one of the list, and raising it leaves the data alone.
C13_Step ==
    \A a \in Admins :
        /\ (apc[a] = "setdata" /\ apc'[a] # "setdata") =>
            /\ apc'[a] = "unlockpanic" <=> C13_Expected(aarg[a]) # "nil"
            /\ Len(aarg[a]) % 2 = 1 => ldata' = <<>>
        /\ (apc[a] = "unlockpanic" /\ apc'[a] = "panic") =>
            /\ araise'[a] = C13_Expected(aarg[a])
            /\ araise'[a] \in {"errOddNumArgs", "errKeyNotString", "errKeyEmpty",
                                "errKeyInvalid"}
            /\ ldata' = ldata

C14_DataErrors == {"errOddNumArgs", "errKeyNotString", "errKeyEmpty", "errKeyInvalid"}

\* C14: a logging call with invalid call-site data emits its own record and
\* then one ERROR record with the error of the data: in the output the ERROR
\* record comes right after the record of the call.
C14_RecordFirst ==
    \A i \in 1..Len(printed) :
        (printed[i].typ = "ERROR" /\ printed[i].text \in C14_DataErrors) =>
            /\ i > 1
            /\ printed[i - 1].typ = "INFO "
            /\ printed[i - 1].n = printed[i].n - 1

\* The pairs of a message whose value is not a Hook that yields nil.
RECURSIVE C15_Present(_)
C15_Present(data) ==
    IF data = <<>> THEN <<>>
    ELSE IF Head(data).Value.t = "hook" /\ Head(data).Value.v.t = "nil"
         THEN C15_Present(Tail(data))
    ELSE <<Head(data)>> \o C15_Present(Tail(data))

C15_Stripped(msg) == [msg EXCEPT !.Data = C15_Present(msg.Data)]

\* C15: what printMessage, WriteTo and WriteJSONTo write for a message is
\* what they write for the message without the pairs whose Hook yields nil.
C15_AbsentPairs ==
    /\ ret.f = "printMessage" => ret.out = printBytes(C15_Stripped(arg))
    /\ ret.f = "WriteTo" => ret.out = WriteToBytes(C15_Stripped(arg))
    /\ ret.f = "WriteJSONTo" => ret.out = WriteJSONToBytes(C15_Stripped(arg))

\* C17: a string that is the value of the pair k of a printed message is what
\* Message.Data and Data.GetString("k") return on the read side, with ok true.
C17_QuoteRoundTrip ==
    (ret.f = "GetString" /\ Len(arg.Data) = 1 /\ arg.Data[1].Value.t = "string")
        => ret.ok /\ ret.out = arg.Data[1].Value.v

\* A string without the spaces at its end.
RECURSIVE C16_Trim(_)
C16_Trim(s) ==
    IF s # <<>> /\ s[Len(s)] = " " THEN C16_Trim(SubSeq(s, 1, Len(s) - 1)) ELSE s

\* C16: when Listen has read the lines printMessage wrote for a message, the
\* handler was given one message, with the content of the message written,
\* up to spaces at the end.
C16_ContentRoundTrip ==
    (lpc = "done" /\ arg.kind = "content") =>
        /\ Len(handled) = 1
        /\ C16_Trim(handled[1].content) = C16_Trim(arg.c)

\* A line that begins with one of the nine types and a space.
C18_Record(line) ==
    Len(line) >= typeLen + 1 /\ getType(line) # <<>> /\ line[typeLen + 1] = " "

\* C18 (step): the handler is given a message only for a line that begins
\* with a type followed by a space.
C18_Step == handled' # handled => C18_Record(tok)

\* C18: a line yields a message only if it begins with one of the nine types
\* followed by a space.
C18_TypeAndSpace == [][C18_Step]_vars

\* The number of elements of a sequence that satisfy a test.
C19_Count(s, Test(_)) == Cardinality({i \in 1..Len(s) : Test(s[i])})

\* C19: when Listen has read lines of which the invalid ones begin with no
\* type, each invalid line was reported once, and each record that follows an
\* invalid line was given to the handler.
C19_Resume ==
    (lpc = "done" /\ arg.kind = "lines"
       /\ \A i \in 1..Len(arg.lines) :
             \/ C18_Record(arg.lines[i])
             \/ Len(arg.lines[i]) < typeLen
             \/ getType(arg.lines[i]) = <<>>)
    => /\ LET Invalid(l) == ~C18_Record(l) IN Len(errs) = C19_Count(arg.lines, Invalid)
       /\ \A i \in 1..Len(arg.lines) :
             (C18_Record(arg.lines[i]) /\ \E j \in 1..(i - 1) : ~C18_Record(arg.lines[j]))
             => \E k \in 1..Len(handled) : handled[k].line = arg.lines[i]

\* C20: when Listen has read a line of MaxScanTokenSize bytes or more and
\* the record after it, an error was reported, the handler was given the
\* record, and it was given no message made from the long line.
C20_LongLine ==
    (lpc = "done" /\ arg.kind = "long") =>
        /\ errs # <<>>
        /\ \E k \in 1..Len(handled) : handled[k].line = arg.lines[2]
        /\ \A k \in 1..Len(handled) : handled[k].line = arg.lines[2]

\* The segment that holds the pairs d: key=value, a space between two pairs.
RECURSIVE C21_Segment(_)
C21_Segment(d) ==
    IF d = <<>> THEN <<>>
    ELSE Head(d).Key \o <<"=">> \o Head(d).Value
           \o (IF Len(d) > 1 THEN <<" ">> ELSE <<>>) \o C21_Segment(Tail(d))

\* C21: Message.Data returns the pairs of the whole segment, in order, with
\* no call of the error handler, or it returns nil after one call of the
\* error handler; the pairs of a part of the segment are never returned.
C21_AllOrNothing ==
    ret.f = "Data" =>
        \/ /\ ret.errs = 0
           /\ C21_Segment(ret.out) \in {arg, C16_Trim(arg)}
           /\ Len(arg) - Len(C21_Segment(ret.out)) <= 1
        \/ ret.errs = 1 /\ ~ret.ok /\ ret.out = <<>>

\* Message.Data was called on a segment whose first pair is well-formed and
\* whose second is not, and returned nil after one call of the error handler.
C21_Witness ==
    /\ ret.f = "Data" /\ ret.errs = 1 /\ ret.out = <<>>
    /\ parseData(<<"k", "=", "1">>).ok
    /\ Len(arg) >= 5 /\ SubSeq(arg, 1, 4) = <<"k", "=", "1", " ">>

\* The places of an encoded object where the key begins, after ", ".
C22_At(b, key) ==
    LET q == appendQuote(key)
    IN {i \in 1..Len(b) :
          /\ b[i] = ", "
          /\ i + Len(q) + 1 <= Len(b)
          /\ SubSeq(b, i + 1, i + Len(q)) = q
          /\ b[i + Len(q) + 1] = ": "}

\* The number of times the members timestamp, type and content are opened
\* by the fixed texts of the object.
C22_Fixed(b, text) == Cardinality({i \in 1..Len(b) : b[i] = text})

\* The value of the last pair of the data with the key.
C22_Last(data, key) ==
    data[CHOOSE i \in 1..Len(data) :
            data[i].Key = key /\ \A j \in (i + 1)..Len(data) : data[j].Key # key].Value

\* C22: in the JSON object written for a message, no pair of the data has
\* the key timestamp, type or content, which the object holds once each; a
\* key of the data is written at most once, and by the program once and with
\* the value of the last pair that has it.
C22_KeysOnce ==
    ret.f \in {"WriteJSONTo", "WriteJSON"} =>
        /\ \A key \in ReservedKeys : C22_At(ret.out, key) = {}
        /\ C22_Fixed(ret.out, "{\"timestamp\": \"") = 1
        /\ C22_Fixed(ret.out, "\", \"type\": \"") = 1
        /\ C22_Fixed(ret.out, "\", \"content\": ") = 1
        /\ \A key \in JSONKeys \ ReservedKeys :
              /\ Cardinality(C22_At(ret.out, key)) <= 1
              /\ (ret.f = "WriteJSONTo" /\ \E i \in 1..Len(arg.Data) : arg.Data[i].Key = key)
                 => \E i \in C22_At(ret.out, key) :
                       LET from == i + Len(appendQuote(key)) + 2
                           v == appendDataValue(C22_Last(arg.Data, key)).b
                       IN /\ from + Len(v) - 1 <= Len(ret.out)
                          /\ SubSeq(ret.out, from, from + Len(v) - 1) = v
                          /\ ret.out[from + Len(v)] \in {", ", "}\n"}

\* A message with the pairs k=1, type=1, k=2 was encoded as JSON.
C22_Witness ==
    /\ ret.f = "WriteJSONTo"
    /\ arg.Data = <<[Key |-> <<"k">>, Value |-> IntArg(1)],
                    [Key |-> <<"t", "y", "p", "e">>, Value |-> IntArg(1)],
                    [Key |-> <<"k">>, Value |-> IntArg(2)]>>
    /\ C22_At(ret.out, <<"k">>) # {}

\* The pairs an argument list key, value, key, value, ... names, in its order.
C23_Pairs(data) ==
    [i \in 1..(Len(data) \div 2) |-> [Key |-> data[2 * i - 1].v, Value |-> data[2 * i]]]

\* C23 (step): send gives the record the pairs of the logger, then the pairs
\* of the call in their order, and the record is printed with them; AddData
\* puts its pair after the pairs the logger has.
C23_Step ==
    /\ \A p \in Producers :
        /\ (ppc[p] = "rlock" /\ ppc'[p] = "runlock") => msgs'[Top(p)].data = ldata
        /\ (ppc[p] = "runlock" /\ ppc'[p] = "check")
            => msgs'[Top(p)].data = msgs[Top(p)].data \o C23_Pairs(pdata[p])
        /\ (ppc[p] = "write" /\ ppc'[p] = "punlock")
            => printed' = Append(printed, printed'[Len(printed')])
                 /\ printed'[Len(printed')].data = msgs[Top(p)].data
    /\ \A a \in Admins :
        (apc[a] = "adddata" /\ apc'[a] = "unlock")
            => ldata' = Append(ldata, [Key |-> aarg[a].Key, Value |-> aarg[a].Value])

\* C23 (state): Data.Get returns the value of the last pair that has the
\* key, with ok true, and nil with ok false when no pair has the key.
C23_Get ==
    ret.f = "Get" =>
        LET at == {i \in 1..Len(ret.d) : ret.d[i].Key = ret.key}
        IN IF at = {} THEN ~ret.ok /\ ret.out.t = "nil"
           ELSE /\ ret.ok
                /\ \E i \in at : ret.out = ret.d[i].Value /\ \A j \in at : j <= i

\* C23: the data of a record are the pairs of the logger followed by the
\* pairs of the call, in their order and with the keys that repeat; Get
\* returns the value of the last pair with the key.
C23_OrderAndGet == [][C23_Step]_vars /\ []C23_Get

\* A record was printed with the pair k of the logger and the two pairs k of
\* the call, and Get returned the value of the last one.
C23_Witness ==
    /\ ret.f = "Get" /\ ret.key = <<"k">> /\ ret.out = IntArg(4)
    /\ Len(ret.d) = 3 /\ ret.d[1] = [Key |-> <<"k">>, Value |-> IntArg(1)]

\* The records among the lines of an input, in their order.
C24_Records(lines) == SelectSeq(lines, C18_Record)

\* The lines of the messages the handler was given, in their order.
C24_Handled == [i \in 1..Len(handled) |-> handled[i].line]

\* C24: when Init and then Listen have read an input that holds a record,
\* Init has returned the first record if it is an INIT record and nil if not,
\* the handler was given every other record once, in the order of the input,
\* and Listen returns nil.
C24_InitThenListen ==
    (lphase = "Listen" /\ lpc = "done" /\ C24_Records(arg.lines) # <<>>) =>
        LET recs == C24_Records(arg.lines)
        IN /\ serr = "EOF"
           /\ IF getType(recs[1]) = TypeInit
              THEN lret.line = recs[1] /\ C24_Handled = Tail(recs)
              ELSE lret = NoMessage /\ C24_Handled = recs

\* C25 (step): out.Write in printMessage either succeeds, with the record
\* written and no report, or fails, with no record and one report to
\* os.Stderr; the call goes on to its normal return unless the report failed,
\* and panics if it did.
C25_WriteStep ==
    \A p \in Producers :
        (ppc[p] = "write" /\ ppc'[p] # "write") =>
            \/ /\ Len(printed') = Len(printed) + 1 /\ stderr' = stderr
               /\ ppc'[p] = "punlock"
            \/ /\ printed' = printed /\ Len(stderr') = Len(stderr) + 1
               /\ SubSeq(stderr', 1, Len(stderr)) = stderr
               /\ ppc'[p] = IF stderr'[Len(stderr')].ok THEN "punlock" ELSE "panic"

\* C25 (step): from the write that has not panicked the call releases the
\* read lock and returns from printMessage.
C25_ReturnStep ==
    \A p \in Producers :
        (ppc[p] = "punlock" /\ ppc'[p] # "punlock") => ppc'[p] = "put" /\ p \notin mu'.r

\* C25 (state): a caller that has left printMessage, by its return or by the
\* panic, holds no read lock on mu.
C25_Released ==
    \A p \in Producers : ppc[p] \in {"put", "panic", "idle"} => p \notin mu.r

\* C25: a failed write of a record is reported once to os.Stderr and the
\* call returns; it panics only if the report failed; the read lock is
\* released on each of these ways out of printMessage.
C25_WriteFailure == [][C25_WriteStep /\ C25_ReturnStep]_vars /\ []C25_Released

\* A write failed and was reported, the call returned; the next write failed
\* and its report failed, the call panicked, and an administrative call has
\* taken the lock since.
C25_Witness ==
    /\ Len(stderr) = 2 /\ stderr[1].ok /\ ~stderr[2].ok
    /\ ppc["p1"] = "panic" /\ mu.w \in Admins

\* C26: for the message of a call of Error or Fatal, Error() is the text the
\* call was given and StackTrace() is the stack trace that was appended, or
\* empty when the logger prints none.
C26_ErrorAndTrace ==
    ret.f = "Error" =>
        /\ ret.out = arg.text
        /\ ret.st = IF arg.skip >= 0 THEN arg.st ELSE <<>>

\* C28 (step): a call of SetData that fails, and a call of AddData that
\* fails, leave the data of the logger as they were.
C28_Step ==
    \A a \in Admins :
        /\ (apc[a] = "setdata" /\ apc'[a] = "unlockpanic") => ldata' = ldata
        /\ (apc[a] = "idle" /\ apc'[a] = "panic") => ldata' = ldata

\* C28: when SetData or AddData fails, the data of the logger after the call
\* are the data before the call.
C28_FailedCallKeepsData == [][C28_Step]_vars

\* C27: the data of each logger are the pairs it inherited when it was made,
\* or was set to by its last SetData, followed by the pairs its own AddData
\* added since; the calls on the other loggers do not change them.
C27_OwnData ==
    \A l \in DOMAIN loggers : elems(heap, loggers[l]) = lwant[l]

\* What Listen does with an input that one read delivers whole: the split
\* function is called on the data left until it returns no token, then the
\* next read meets the end of the input and it is called with atEOF.
RECURSIVE C29_OneRead(_, _, _, _)
C29_OneRead(data, atEOF, hs, es) ==
    IF data = <<>> /\ ~atEOF THEN C29_OneRead(data, TRUE, hs, es)
    ELSE LET r == scanSayLines(data, atEOF)
         IN IF r.has
            THEN IF getType(r.token) = <<>>
                 THEN C29_OneRead(From(data, r.advance), atEOF, hs,
                                  Append(es \o r.errs, invalidLine(r.token)))
                 ELSE C29_OneRead(From(data, r.advance), atEOF,
                                  Append(hs, NewMessage(r.token)), es \o r.errs)
            ELSE IF atEOF THEN [handled |-> hs, errs |-> es \o r.errs]
            ELSE C29_OneRead(From(data, r.advance), TRUE, hs, es \o r.errs)

\* C29: when Listen has read an input that fits in the first buffer of the
\* scanner, the messages given to the handler and the errors reported are
\* those of the run in which one read delivers the whole input.
C29_SplitIndependent ==
    (lpc = "done" /\ Len(InputBytes(arg)) <= startBufSize) =>
        LET one == C29_OneRead(InputBytes(arg), FALSE, <<>>, <<>>)
        IN handled = one.handled /\ errs = one.errs

\* C30: when the input holds no record, Init does not fail and returns nil,
\* and Listen, called after it, gives the handler nothing and returns nil.
C30_NoRecord ==
    C24_Records(arg.lines) = <<>> =>
        /\ lpc # "panic"
        /\ lret = NoMessage
        /\ handled = <<>>
        /\ (lphase = "Listen" /\ lpc = "done") => serr = "EOF"

====
